---- MODULE Spec2Model ----
(***************************************************************************)
(* Alarm Store + Scheduler of main/services/alarm_clock.cc.                *)
(*                                                                         *)
(* The AlarmManager is modelled as a state machine: the in-memory alarm    *)
(* table, the id counter, the key/value settings store (pending and        *)
(* committed view), the single scheduler timer and the timer callback.     *)
(* Every public method runs under alarms_mutex_ and is one atomic action.  *)
(* Text that the code parses (time values, the id list) is a sequence of   *)
(* one-character strings; names and sounds are opaque strings.             *)
(***************************************************************************)
EXTENDS Integers, Sequences, FiniteSets, TLC

VARIABLES
    alarms_,          \* std::map<int, Alarm>: function id -> Alarm record
    next_alarm_id_,   \* int id counter
    settings_,        \* key/value store as seen by get/set (pending writes included)
    committed,        \* key/value store content that survives a restart
    scheduler_timer_, \* the single esp_timer: created / active / deadline
    callback,         \* timer task: is OnSchedulerTimer waiting, with its captured now
    now,              \* wall clock, whole seconds (std::time)
    alive,            \* FALSE once the process has aborted
    scheduled,        \* jobs handed to Application::Schedule and not yet run
    issued,           \* per id, since the AddAlarm that returned it: whether it
                      \* never was repeating, and if so the labels of its jobs
    alarms_mutex_,    \* std::mutex: the thread that holds it, or NoOwner
    threads,          \* per thread: the method it runs, its argument and its stack
                      \* of functions with the position in each
    relocked,         \* a thread has locked alarms_mutex_ while holding it
    allocated,        \* the ids that AddAlarm has returned for an input id <= 0,
                      \* in the order of the calls
    cloud_notifier_,  \* the std::function installed by SetCloudNotifier
    handles_created,  \* number of per-alarm timers that callers have created
    released,         \* the per-alarm timer handles stopped and deleted, in order
    arguments,        \* the cJSON value passed to ParseAlarmRequest
    result,           \* the AlarmParseResult of the last call, with the number of calls
    g_alarm_counter,  \* std::atomic<uint32_t>
    esp_time,         \* esp_timer_get_time(), microseconds; stamped: how many calls
    stamped,          \* of GenerateAlarmId have read its current value
    generating,       \* per task: the call of GenerateAlarmId it is in, if any
    returned,         \* the strings that GenerateAlarmId has returned, in order
    app,              \* the TestApplication with its audio service and protocol
    app_last,         \* the last method called on it, the state it was called in,
                      \* and the number of calls so far
    last,             \* observation of the last completed operation
    ref,              \* reference map replayed next to the Store
    refValid          \* TRUE while ref is a replay from an empty Store

\* the state outside the manager, its store and its timer
jobvars == <<scheduled, issued>>
lockvars == <<alarms_mutex_, threads, relocked>>
parservars == <<arguments, result, g_alarm_counter, esp_time, stamped, generating, returned>>
appvars == <<app, app_last>>
handlevars == <<handles_created, released>>
notifiervars == <<cloud_notifier_>>
aside == <<jobvars, lockvars, allocated, handlevars, notifiervars, parservars, appvars>>

vars == <<alarms_, next_alarm_id_, settings_, committed, scheduler_timer_,
          callback, now, alive, last, ref, refValid, aside>>

----------------------------------------------------------------------------
(* Bounds of the model *)

\* width of int, scaled: int ranges over INT_MIN..INT_MAX
INT_MAX == 3
INT_MIN == -INT_MAX - 1
\* width of long long and of time_t, scaled
LLONG_MAX == 99999
LLONG_MIN == -LLONG_MAX - 1
TIME_T_MAX == 9999
TIME_T_MIN == -TIME_T_MAX - 1
\* width of the int64_t that holds a delay in microseconds, scaled: delays of
\* up to INT64_MAX \div kMicrosPerSecond seconds are representable
INT64_MAX == 1999999999
INT64_MIN == -INT64_MAX - 1
\* the clock stops advancing here
MaxNow == 1500
\* AddAlarm of a new id is only taken while the Store holds fewer alarms
MaxAlarms == 2
\* a dispatch pass is only taken while its jobs fit the queue of the main loop
MaxJobs == 2
\* the ids allocated by AddAlarm are followed up to this many allocations
MaxAllocs == 2
\* uint32_t
UINT32_MAX == 3
\* the microsecond clock stops advancing here
MaxMicros == 2
\* fewer calls of GenerateAlarmId read one value of the microsecond clock than
\* the counter has values
MaxCallsPerMicro == 2
\* ParseAlarmRequest is followed for this many calls on the same arguments
MaxParses == 2
\* GenerateAlarmId is followed until it has returned this many strings
MaxReturned == 5
\* the application is followed for this many method calls
MaxAppCalls == 2
\* callers create this many per-alarm timers
MaxHandles == 2

----------------------------------------------------------------------------
(* Program constants *)

kAlarmIdsKey == "alarm_ids"
kNextIdKey == "next_alarm_id"
kAlarmNameKeyPrefix == "a_n_"
kAlarmTimeKeyPrefix == "a_t_"
kAlarmRepeatKeyPrefix == "a_r_"
kAlarmIntervalKeyPrefix == "a_i_"
kAlarmSoundKeyPrefix == "a_s_"
kLegacyAlarmNameKeyPrefix == "alarm_"
kLegacyAlarmTimeKeyPrefix == "alarm_time_"
kLegacyAlarmRepeatKeyPrefix == "alarm_repeat_"
kLegacyAlarmIntervalKeyPrefix == "alarm_interval_"
kLegacyAlarmSoundKeyPrefix == "alarm_sound_"
kAllowedSounds == {"ALARM1", "ALARM2", "ALARM3"}
kSecondsPerMinute == 60
kMicrosPerSecond == 1000000
kMinDelayUs == 1000

NewPrefixes == {kAlarmNameKeyPrefix, kAlarmTimeKeyPrefix, kAlarmRepeatKeyPrefix,
                kAlarmIntervalKeyPrefix, kAlarmSoundKeyPrefix}
LegacyPrefixes == {kLegacyAlarmNameKeyPrefix, kLegacyAlarmTimeKeyPrefix,
                   kLegacyAlarmRepeatKeyPrefix, kLegacyAlarmIntervalKeyPrefix,
                   kLegacyAlarmSoundKeyPrefix}

----------------------------------------------------------------------------
(* Text helpers *)

DigitChars == <<"0", "1", "2", "3", "4", "5", "6", "7", "8", "9">>
IsDigit(c) == \E d \in 1..10 : DigitChars[d] = c
DigitVal(c) == (CHOOSE d \in 1..10 : DigitChars[d] = c) - 1
IsSpace(c) == c \in {" ", "\t", "\n"}

RECURSIVE NatToChars(_)
NatToChars(n) ==
    IF n < 10 THEN <<DigitChars[n + 1]>>
    ELSE NatToChars(n \div 10) \o <<DigitChars[(n % 10) + 1]>>

\* operator<<(int) and std::to_string(long long): decimal text, '-' when negative
IntToChars(n) == IF n < 0 THEN <<"-">> \o NatToChars(-n) ELSE NatToChars(n)

MakeKey(prefix, id) == prefix \o ToString(id)

RECURSIVE TrimFront(_)
TrimFront(view) ==
    IF view # <<>> /\ IsSpace(Head(view)) THEN TrimFront(Tail(view)) ELSE view

RECURSIVE TrimBack(_)
TrimBack(view) ==
    IF view # <<>> /\ IsSpace(view[Len(view)])
    THEN TrimBack(SubSeq(view, 1, Len(view) - 1))
    ELSE view

TrimStringView(view) == TrimBack(TrimFront(view))

RECURSIVE DigitsValue(_, _)
\* value of a run of digits, saturating above cap so that the range test decides
DigitsValue(digits, cap) ==
    IF digits = <<>> THEN 0
    ELSE LET hi == DigitsValue(SubSeq(digits, 1, Len(digits) - 1), cap)
             v == hi * 10 + DigitVal(digits[Len(digits)])
         IN IF v > cap THEN cap + 1 ELSE v

NoValue == [ok |-> FALSE, v |-> 0]
Some(x) == [ok |-> TRUE, v |-> x]

\* std::from_chars on the trimmed text: optional '-', at least one digit,
\* nothing after the digits, value within [lo, hi]
ParseIntegral(text, lo, hi) ==
    LET t == TrimStringView(text)
        neg == t # <<>> /\ Head(t) = "-"
        digits == IF neg THEN Tail(t) ELSE t
        mag == DigitsValue(digits, -lo)
        value == IF neg THEN -mag ELSE mag
    IN IF t = <<>> THEN NoValue
       ELSE IF digits = <<>> \/ \E i \in 1..Len(digits) : ~IsDigit(digits[i]) THEN NoValue
       ELSE IF value < lo \/ value > hi THEN NoValue
       ELSE Some(value)

RECURSIVE SplitComma(_)
\* std::getline(ss, item, ','): the items between commas; no item after a final comma
SplitComma(s) ==
    IF s = <<>> THEN <<>>
    ELSE LET idx == {i \in 1..Len(s) : s[i] = ","}
         IN IF idx = {} THEN <<s>>
            ELSE LET i == CHOOSE j \in idx : \A k \in idx : j <= k
                 IN <<SubSeq(s, 1, i - 1)>> \o SplitComma(SubSeq(s, i + 1, Len(s)))

RECURSIVE ParseItems(_)
ParseItems(items) ==
    IF items = <<>> THEN <<>>
    ELSE LET trimmed == TrimStringView(Head(items))
             parsed == ParseIntegral(trimmed, INT_MIN, INT_MAX)
             rest == ParseItems(Tail(items))
         IN IF trimmed = <<>> THEN rest
            ELSE IF parsed.ok THEN <<parsed.v>> \o rest
            ELSE rest

ParseIdList(id_list) == ParseItems(SplitComma(id_list))

RECURSIVE SortedIds(_)
\* iteration order of std::map<int, Alarm>: ascending key
SortedIds(S) ==
    IF S = {} THEN <<>>
    ELSE LET m == CHOOSE x \in S : \A y \in S : x <= y
         IN <<m>> \o SortedIds(S \ {m})

RECURSIVE JoinSeq(_)
JoinSeq(ids) ==
    IF ids = <<>> THEN <<>>
    ELSE IF Len(ids) = 1 THEN IntToChars(ids[1])
    ELSE IntToChars(ids[1]) \o <<",">> \o JoinSeq(Tail(ids))

JoinIds(alarms) == JoinSeq(SortedIds(DOMAIN alarms))

IsValidSound(sound) == sound \in kAllowedSounds
NormalizeSound(sound) == IF IsValidSound(sound) THEN sound ELSE "ALARM1"

----------------------------------------------------------------------------
(* Finite maps *)

EmptyMap == [k \in {} |-> 0]
Put(f, k, v) == [x \in DOMAIN f \cup {k} |-> IF x = k THEN v ELSE f[x]]
Del(f, k) == [x \in DOMAIN f \ {k} |-> f[x]]

Max(a, b) == IF a >= b THEN a ELSE b

----------------------------------------------------------------------------
(* The manager's state as one value, threaded through the statements of a   *)
(* method in program order.                                                 *)
(*   alarms : alarms_           next : next_alarm_id_                       *)
(*   kv     : settings_ as read and written                                 *)
(*   dur    : content that a restart finds                                  *)
(*   timer  : scheduler_timer_  tr : calls made on collaborators, in order  *)
(*   trap   : the process aborted in this method                            *)

Ev(e, k, v) == [e |-> e, k |-> k, v |-> v]
Log(M, e, k, v) == [M EXCEPT !.tr = Append(@, Ev(e, k, v))]

\* Settings: a namespaced key/value store with explicit commit
SetValue(M, key, value) == Log([M EXCEPT !.kv = Put(@, key, value)], "set", key, value)
EraseKey(M, key) == Log([M EXCEPT !.kv = Del(@, key)], "erase", key, "")
Commit(M) == Log([M EXCEPT !.dur = M.kv], "commit", "", "")
HasKey(M, key) == key \in DOMAIN M.kv
GetValue(M, key, fallback) == IF HasKey(M, key) THEN M.kv[key] ELSE fallback

\* int + 1: signed overflow is undefined; the build either wraps or traps
AddOne(x, ub) ==
    IF x < INT_MAX THEN [trap |-> FALSE, v |-> x + 1]
    ELSE IF ub = "wrap" THEN [trap |-> FALSE, v |-> INT_MIN]
    ELSE [trap |-> TRUE, v |-> x]

UBOutcomes == {"wrap", "trap"}

\* static_cast<int64_t>(seconds) * 1000000LL for seconds > 0: signed overflow
\* is undefined; the build either wraps or traps
MulMicros(seconds, ub) ==
    IF seconds <= INT64_MAX \div kMicrosPerSecond
    THEN [trap |-> FALSE, v |-> seconds * kMicrosPerSecond]
    ELSE IF ub = "wrap"
    THEN [trap |-> FALSE,
          v |-> ((seconds * kMicrosPerSecond - INT64_MAX) - 1) - INT64_MAX - 1]
    ELSE [trap |-> TRUE, v |-> 0]

NullHandle == 0
\* an empty std::function, and the callbacks that callers install
NoNotifier == "none"
Notifiers == {"cloud", "log"}

Alarm(id, time, repeat, interval, name, sound, handle) ==
    [time |-> time, repeat |-> repeat, interval |-> interval, name |-> name,
     sound |-> sound, id |-> id, timer_handle |-> handle]

\* variant: the repeat flag is not written
PersistAlarm_NoRepeat(M, alarm) ==
    SetValue(SetValue(SetValue(SetValue(M,
        MakeKey(kAlarmNameKeyPrefix, alarm.id), alarm.name),
        MakeKey(kAlarmTimeKeyPrefix, alarm.id), IntToChars(alarm.time)),
        MakeKey(kAlarmIntervalKeyPrefix, alarm.id), alarm.interval),
        MakeKey(kAlarmSoundKeyPrefix, alarm.id), NormalizeSound(alarm.sound))

\* variant: every write of a record is committed on its own
PersistAlarm_Committed(M, alarm) ==
    Commit(SetValue(SetValue(SetValue(SetValue(SetValue(M,
        MakeKey(kAlarmNameKeyPrefix, alarm.id), alarm.name),
        MakeKey(kAlarmTimeKeyPrefix, alarm.id), IntToChars(alarm.time)),
        MakeKey(kAlarmRepeatKeyPrefix, alarm.id), alarm.repeat),
        MakeKey(kAlarmIntervalKeyPrefix, alarm.id), alarm.interval),
        MakeKey(kAlarmSoundKeyPrefix, alarm.id), NormalizeSound(alarm.sound)))

PersistAlarm(M, alarm) ==
    LET M1 == SetValue(M, MakeKey(kAlarmNameKeyPrefix, alarm.id), alarm.name)
        M2 == SetValue(M1, MakeKey(kAlarmTimeKeyPrefix, alarm.id), IntToChars(alarm.time))
        M3 == SetValue(M2, MakeKey(kAlarmRepeatKeyPrefix, alarm.id), alarm.repeat)
        M4 == SetValue(M3, MakeKey(kAlarmIntervalKeyPrefix, alarm.id), alarm.interval)
    IN SetValue(M4, MakeKey(kAlarmSoundKeyPrefix, alarm.id), NormalizeSound(alarm.sound))

PersistAlarmIds(M) == SetValue(M, kAlarmIdsKey, JoinIds(M.alarms))

RemovalOrder == <<kAlarmNameKeyPrefix, kAlarmTimeKeyPrefix, kAlarmRepeatKeyPrefix,
                  kAlarmIntervalKeyPrefix, kAlarmSoundKeyPrefix,
                  kLegacyAlarmNameKeyPrefix, kLegacyAlarmTimeKeyPrefix,
                  kLegacyAlarmRepeatKeyPrefix, kLegacyAlarmIntervalKeyPrefix,
                  kLegacyAlarmSoundKeyPrefix>>

RECURSIVE EraseAll(_, _, _)
EraseAll(M, prefixes, id) ==
    IF prefixes = <<>> THEN M
    ELSE EraseAll(EraseKey(M, MakeKey(Head(prefixes), id)), Tail(prefixes), id)

\* variant: the sound key is left behind
RemoveAlarmFromStorage_KeepSound(M, id) ==
    EraseAll(M, SelectSeq(RemovalOrder, LAMBDA p : p # kAlarmSoundKeyPrefix), id)

RemoveAlarmFromStorage(M, id) == EraseAll(M, RemovalOrder, id)

\* esp_timer_stop + esp_timer_delete of a per-alarm handle
ReleaseHandle(M, handle) == Log(M, "release", "", handle)

MinTime(alarms) ==
    CHOOSE t \in {alarms[i].time : i \in DOMAIN alarms} :
        \A i \in DOMAIN alarms : t <= alarms[i].time

\* deadline_us: the absolute time of expiry kept by esp_timer, start + delay_us
IdleTimer(created) == [created |-> created, active |-> FALSE, deadline_us |-> 0]

\* variant: a failed esp_timer_start_once aborts, as under ESP_ERROR_CHECK
StartOnce_Checked(M, t, delay_us, armOk) ==
    IF armOk
    THEN Log([M EXCEPT !.timer = [created |-> TRUE, active |-> TRUE,
                                  deadline_us |-> t * kMicrosPerSecond + delay_us]],
             "timer_start", "", delay_us)
    ELSE [Log(M, "timer_start_failed", "", delay_us) EXCEPT !.trap = TRUE]

\* esp_timer_start_once(scheduler_timer_, delay_us) and its result
StartOnce(M, t, delay_us, armOk) ==
    IF armOk
    THEN Log([M EXCEPT !.timer = [created |-> TRUE, active |-> TRUE,
                                  deadline_us |-> t * kMicrosPerSecond + delay_us]],
             "timer_start", "", delay_us)
    ELSE Log(M, "timer_start_failed", "", delay_us)

\* esp_timer_is_active / esp_timer_stop
StopIfActive(M) ==
    IF M.timer.active
    THEN Log([M EXCEPT !.timer = IdleTimer(TRUE)], "timer_stop", "", "")
    ELSE M

\* variant: a delay that is not positive is not armed
ScheduleNextLocked_NoPast(M, t, armOk, ub) ==
    IF ~M.timer.created THEN M
    ELSE IF DOMAIN M.alarms = {} THEN StopIfActive(M)
    ELSE IF MinTime(M.alarms) <= t THEN StopIfActive(M)
    ELSE IF MulMicros(MinTime(M.alarms) - t, ub).trap
    THEN [StopIfActive(M) EXCEPT !.trap = TRUE]
    ELSE StartOnce(StopIfActive(M), t,
                   Max(MulMicros(MinTime(M.alarms) - t, ub).v, kMinDelayUs), armOk)

\* t is std::time(nullptr) inside the call, armOk the result of esp_timer_start_once
ScheduleNextLocked(M, t, armOk, ub) ==
    IF ~M.timer.created THEN M
    ELSE IF DOMAIN M.alarms = {} THEN StopIfActive(M)
    ELSE LET next_time == MinTime(M.alarms)
             product == MulMicros(next_time - t, ub)
             delay_us == IF next_time > t THEN Max(product.v, kMinDelayUs) ELSE kMinDelayUs
         IN IF next_time > t /\ product.trap THEN [StopIfActive(M) EXCEPT !.trap = TRUE]
            ELSE StartOnce(StopIfActive(M), t, delay_us, armOk)

----------------------------------------------------------------------------
(* LoadAlarms *)

\* variant: an adopted legacy value is not written under the new-scheme key
LoadField_NoAdopt(M, prefix, legacy_prefix, id, fallback) ==
    IF HasKey(M, MakeKey(prefix, id))
    THEN [M |-> EraseKey(M, MakeKey(legacy_prefix, id)), v |-> M.kv[MakeKey(prefix, id)]]
    ELSE IF HasKey(M, MakeKey(legacy_prefix, id))
    THEN [M |-> EraseKey(M, MakeKey(legacy_prefix, id)),
          v |-> M.kv[MakeKey(legacy_prefix, id)]]
    ELSE [M |-> EraseKey(M, MakeKey(legacy_prefix, id)), v |-> fallback]

\* load_string_field / load_int_field / load_bool_field: the three lambdas
\* differ only in the type of the value
LoadField(M, prefix, legacy_prefix, id, fallback) ==
    LET key == MakeKey(prefix, id)
        legacy_key == MakeKey(legacy_prefix, id)
    IN IF HasKey(M, key)
       THEN [M |-> EraseKey(M, legacy_key), v |-> M.kv[key]]
       ELSE IF HasKey(M, legacy_key)
       THEN [M |-> EraseKey(SetValue(M, key, M.kv[legacy_key]), legacy_key),
             v |-> M.kv[legacy_key]]
       ELSE [M |-> EraseKey(M, legacy_key), v |-> fallback]

\* std::map::emplace: keeps the record already stored under the id
Emplace(alarms, id, alarm) == IF id \in DOMAIN alarms THEN alarms ELSE Put(alarms, id, alarm)

\* one iteration of the loop over the parsed id list
LoadOne(M, id) ==
    LET n == LoadField(M, kAlarmNameKeyPrefix, kLegacyAlarmNameKeyPrefix, id, "")
        t == LoadField(n.M, kAlarmTimeKeyPrefix, kLegacyAlarmTimeKeyPrefix, id, <<"0">>)
        parsed_time == ParseIntegral(TrimStringView(t.v), LLONG_MIN, LLONG_MAX)
        r == LoadField(t.M, kAlarmRepeatKeyPrefix, kLegacyAlarmRepeatKeyPrefix, id, FALSE)
        i == LoadField(r.M, kAlarmIntervalKeyPrefix, kLegacyAlarmIntervalKeyPrefix, id, 0)
        s == LoadField(i.M, kAlarmSoundKeyPrefix, kLegacyAlarmSoundKeyPrefix, id, "ALARM1")
        stored_sound == IF IsValidSound(s.v) THEN s.v ELSE "ALARM1"
        alarm == Alarm(id, parsed_time.v, r.v, i.v, n.v, stored_sound, NullHandle)
    IN IF ~parsed_time.ok THEN t.M
       ELSE IF parsed_time.v < TIME_T_MIN \/ parsed_time.v > TIME_T_MAX THEN t.M
       ELSE [s.M EXCEPT !.alarms = Emplace(@, id, alarm)]

RECURSIVE LoadEach(_, _)
LoadEach(M, ids) == IF ids = <<>> THEN M ELSE LoadEach(LoadOne(M, Head(ids)), Tail(ids))

MaxId(alarms) == CHOOSE m \in DOMAIN alarms : \A j \in DOMAIN alarms : j <= m

\* the loop over the ids of kAlarmIdsKey
LoadListed(M) ==
    LET ids == GetValue(M, kAlarmIdsKey, <<>>)
    IN IF ids # <<>> THEN LoadEach(M, ParseIdList(ids)) ELSE M

\* next_alarm_id_ from kNextIdKey, moved above the largest loaded id; Commit
RestoreNextId(M, ub) ==
    LET stored_next == GetValue(M, kNextIdKey, 1)
        clamped == IF stored_next <= 0 THEN 1 ELSE stored_next
        bump == DOMAIN M.alarms # {} /\ clamped <= MaxId(M.alarms)
        inc == AddOne(MaxId(M.alarms), ub)
    IN IF bump /\ inc.trap THEN [M EXCEPT !.trap = TRUE]
       ELSE Commit([M EXCEPT !.next = IF bump THEN inc.v ELSE clamped])

LoadAlarms(M, ub) == RestoreNextId(LoadListed(M), ub)

\* ScheduleNext(): ScheduleNextLocked under alarms_mutex_; an aborted process
\* does not get here
ScheduleNext(M, t, armOk, ub) ==
    IF M.trap THEN M ELSE ScheduleNextLocked(M, t, armOk, ub)

\* the alarms that the loop of LoadAlarms takes from durable content
Loaded(durable) ==
    LoadListed([alarms |-> EmptyMap, next |-> 1, kv |-> durable, dur |-> durable,
                timer |-> IdleTimer(TRUE), notifier |-> NoNotifier, tr |-> <<>>,
                trap |-> FALSE]).alarms

RECURSIVE PersistEach(_, _)
PersistEach(M, ids) ==
    IF ids = <<>> THEN M ELSE PersistEach(PersistAlarm(M, M.alarms[Head(ids)]), Tail(ids))

\* every held alarm and the id list written again as they are, and committed
Repersist(M) ==
    Commit(PersistAlarmIds(PersistEach(M, SortedIds(DOMAIN M.alarms))))

\* AlarmManager::AlarmManager(): timer creation, LoadAlarms, ScheduleNext
Construct(durable, created, t, armOk, ub) ==
    ScheduleNext(LoadAlarms([alarms |-> EmptyMap, next |-> 1, kv |-> durable,
                             dur |-> durable, timer |-> IdleTimer(created),
                             notifier |-> NoNotifier, tr |-> <<>>, trap |-> FALSE], ub),
                 t, armOk, ub)

----------------------------------------------------------------------------
(* Public methods and the dispatch pass, as functions of the manager state *)

GenerateId(M, ub) ==
    LET inc == AddOne(M.next, ub)
    IN [id |-> M.next, M |-> [M EXCEPT !.next = inc.v, !.trap = inc.trap]]

\* returns the manager state and the returned id
DoAddAlarm(M, alarm, t, armOk, ub) ==
    LET sound == NormalizeSound(alarm.sound)
        gen == GenerateId(M, ub)
        inc == AddOne(alarm.id, ub)
        id == IF alarm.id <= 0 THEN gen.id ELSE alarm.id
        M1 == IF alarm.id <= 0 THEN gen.M
              ELSE IF alarm.id >= M.next THEN [M EXCEPT !.next = inc.v, !.trap = inc.trap]
              ELSE M
        stored == [alarm EXCEPT !.sound = sound, !.id = id]
        M2 == [M1 EXCEPT !.alarms = Put(@, id, stored)]
        M3 == PersistAlarmIds(PersistAlarm(M2, stored))
        M4 == Commit(SetValue(M3, kNextIdKey, M3.next))
    IN IF M1.trap THEN [M |-> M1, ret |-> id]
       ELSE [M |-> ScheduleNextLocked(M4, t, armOk, ub), ret |-> id]

\* variant: no early return for an unknown id
DoRemoveAlarm_NoLookup(M, id, t, armOk, ub) ==
    LET M2 == [M EXCEPT !.alarms = Del(@, id)]
        M3 == Commit(PersistAlarmIds(RemoveAlarmFromStorage(M2, id)))
    IN [M |-> ScheduleNextLocked(M3, t, armOk, ub), ret |-> id \in DOMAIN M.alarms]

DoRemoveAlarm(M, id, t, armOk, ub) ==
    IF id \notin DOMAIN M.alarms THEN [M |-> M, ret |-> FALSE]
    ELSE LET M1 == IF M.alarms[id].timer_handle # NullHandle
                   THEN ReleaseHandle(M, M.alarms[id].timer_handle)
                   ELSE M
             M2 == [M1 EXCEPT !.alarms = Del(@, id)]
             M3 == Commit(PersistAlarmIds(RemoveAlarmFromStorage(M2, id)))
         IN [M |-> ScheduleNextLocked(M3, t, armOk, ub), ret |-> TRUE]

\* variant: inserts the alarm when its id is unknown
DoUpdateAlarm_Upsert(M, alarm, t, armOk, ub) ==
    LET updated == [alarm EXCEPT !.sound = NormalizeSound(alarm.sound)]
        M2 == [M EXCEPT !.alarms = Put(@, updated.id, updated)]
        M3 == Commit(PersistAlarmIds(PersistAlarm(M2, updated)))
    IN [M |-> ScheduleNextLocked(M3, t, armOk, ub), ret |-> alarm.id \in DOMAIN M.alarms]

DoUpdateAlarm(M, alarm, t, armOk, ub) ==
    IF alarm.id \notin DOMAIN M.alarms THEN [M |-> M, ret |-> FALSE]
    ELSE LET old == M.alarms[alarm.id].timer_handle
             M1 == IF old # alarm.timer_handle /\ old # NullHandle
                   THEN ReleaseHandle(M, old)
                   ELSE M
             updated == [alarm EXCEPT !.sound = NormalizeSound(alarm.sound)]
             M2 == [M1 EXCEPT !.alarms = Put(@, updated.id, updated)]
             M3 == Commit(PersistAlarmIds(PersistAlarm(M2, updated)))
         IN [M |-> ScheduleNextLocked(M3, t, armOk, ub), ret |-> TRUE]

GetAlarm(alarms, id) == IF id \in DOMAIN alarms THEN Some(alarms[id]) ELSE NoValue

\* variant: the snapshot in descending id order
GetAlarms_Descending(alarms) ==
    LET ids == SortedIds(DOMAIN alarms)
    IN [k \in 1..Len(ids) |-> alarms[ids[Len(ids) + 1 - k]]]

GetAlarms(alarms) ==
    LET ids == SortedIds(DOMAIN alarms)
    IN [k \in 1..Len(ids) |-> alarms[ids[k]]]

ResolveAlarmSoundClip(sound) ==
    IF sound = "ALARM2" THEN "OGG_ALARM2"
    ELSE IF sound = "ALARM3" THEN "OGG_ALARM3"
    ELSE "OGG_ALARM1"

\* variant: the interval is added once, without the loop
AdvanceTime_Once(next_time, interval_seconds, t) == next_time

RECURSIVE AdvanceTime(_, _, _)
\* while (next_time <= now) next_time += interval_seconds;
AdvanceTime(next_time, interval_seconds, t) ==
    IF next_time <= t THEN AdvanceTime(next_time + interval_seconds, interval_seconds, t)
    ELSE next_time

\* body of the first loop of OnSchedulerTimer for one due id;
\* D carries the manager state, remove_ids and commit_needed
FireOne(D, id, t) ==
    IF id \notin DOMAIN D.M.alarms THEN D
    ELSE LET stored_alarm == D.M.alarms[id]
             notification == IF stored_alarm.name = "" THEN "Alarm" ELSE stored_alarm.name
             job == [alarm |-> stored_alarm, notification |-> notification,
                     notifier |-> D.M.notifier,
                     sound_clip |-> ResolveAlarmSoundClip(stored_alarm.sound)]
             M1 == Log(D.M, "handoff", "", job)
         IN IF stored_alarm.repeat /\ stored_alarm.interval > 0
            THEN LET raw == stored_alarm.interval * kSecondsPerMinute
                     interval_seconds == IF raw <= 0 THEN kSecondsPerMinute ELSE raw
                     next_time == AdvanceTime(stored_alarm.time + interval_seconds,
                                              interval_seconds, t)
                     advanced == [stored_alarm EXCEPT !.time = next_time]
                     M2 == [M1 EXCEPT !.alarms = Put(@, id, advanced)]
                 IN [D EXCEPT !.M = PersistAlarm(M2, advanced), !.commit_needed = TRUE]
            ELSE LET M2 == IF stored_alarm.timer_handle # NullHandle
                           THEN ReleaseHandle(M1, stored_alarm.timer_handle)
                           ELSE M1
                     M3 == [M2 EXCEPT !.alarms =
                               Put(@, id, [stored_alarm EXCEPT !.timer_handle = NullHandle])]
                 IN [D EXCEPT !.M = M3, !.remove_ids = Append(@, id)]

RECURSIVE FireEach(_, _, _)
FireEach(D, ids, t) ==
    IF ids = <<>> THEN D ELSE FireEach(FireOne(D, Head(ids), t), Tail(ids), t)

\* variant: the second loop removes nothing
RemoveEach_Keep(D, ids) == D

RECURSIVE RemoveEach(_, _)
\* second loop of OnSchedulerTimer
RemoveEach(D, ids) ==
    IF ids = <<>> THEN D
    ELSE LET id == Head(ids)
         IN IF id \notin DOMAIN D.M.alarms THEN RemoveEach(D, Tail(ids))
            ELSE LET M1 == RemoveAlarmFromStorage(D.M, id)
                     M2 == [M1 EXCEPT !.alarms = Del(@, id)]
                 IN RemoveEach([D EXCEPT !.M = M2, !.ids_changed = TRUE,
                                         !.commit_needed = TRUE], Tail(ids))

\* variant: every alarm of the Store is taken as due
DueIds_All(alarms, t) == SortedIds(DOMAIN alarms)

DueIds(alarms, t) == SortedIds({i \in DOMAIN alarms : alarms[i].time <= t})

\* the locals of OnSchedulerTimer before its first loop
PassStart(M) ==
    [M |-> M, remove_ids |-> <<>>, commit_needed |-> FALSE, ids_changed |-> FALSE]

\* the manager state in which the first loop reaches the handoff of the k-th
\* due id: the first k - 1 iterations have run
AtHandoff(M, t_captured, k) ==
    FireEach(PassStart(M), SubSeq(DueIds(M.alarms, t_captured), 1, k - 1), t_captured).M

\* t_captured is the now read on entry, t the clock when the timer is re-armed
DoOnSchedulerTimer(M, t_captured, t, armOk, ub) ==
    LET due_ids == DueIds(M.alarms, t_captured)
        D0 == [M |-> M, remove_ids |-> <<>>, commit_needed |-> FALSE, ids_changed |-> FALSE]
        D1 == FireEach(D0, due_ids, t_captured)
        D2 == RemoveEach(D1, D1.remove_ids)
        M3 == IF D2.ids_changed THEN PersistAlarmIds(D2.M) ELSE D2.M
        M4 == IF D2.commit_needed \/ D2.ids_changed THEN Commit(M3) ELSE M3
    IN IF due_ids = <<>> THEN ScheduleNextLocked(M, t, armOk, ub)
       ELSE ScheduleNextLocked(M4, t, armOk, ub)

----------------------------------------------------------------------------
(* Inputs *)

RECURSIVE FromPairs(_)
FromPairs(pairs) ==
    IF pairs = <<>> THEN EmptyMap
    ELSE Put(FromPairs(SubSeq(pairs, 1, Len(pairs) - 1)),
             pairs[Len(pairs)][1], pairs[Len(pairs)][2])

\* what the previous firmware (main/alarm_clock.cc) leaves for one alarm
LegacyPersistAlarm(kv, alarm) ==
    LET k1 == Put(kv, MakeKey("alarm_", alarm.id), alarm.name)
        k2 == Put(k1, MakeKey("alarm_time_", alarm.id), IntToChars(alarm.time))
        k3 == Put(k2, MakeKey("alarm_repeat_", alarm.id), alarm.repeat)
    IN Put(k3, MakeKey("alarm_interval_", alarm.id), alarm.interval)

EmptyStore == EmptyMap

\* left by the previous firmware after AddAlarm of one alarm with id 1
LegacyStore ==
    LegacyPersistAlarm(FromPairs(<< <<kAlarmIdsKey, <<"1">> >>, <<kNextIdKey, 2>> >>),
                       Alarm(1, 600, FALSE, 0, "Tea", "ALARM1", NullHandle))

\* left by this firmware: one repeating alarm, every 10 minutes from 0
CurrentStore ==
    FromPairs(<< <<kAlarmIdsKey, <<"2">> >>, <<kNextIdKey, 3>>,
                 <<"a_n_2", "">>, <<"a_t_2", <<"0">> >>, <<"a_r_2", TRUE>>,
                 <<"a_i_2", 10>>, <<"a_s_2", "ALARM2">> >>)

\* damaged content: empty and unparsable list entries, a listed id without a
\* usable time, padded text, a sound outside the enumeration, a counter <= 0
DamagedStore ==
    FromPairs(<< <<kAlarmIdsKey, <<"1", ",", ",", "x", ",", " ", "2", ",", "1">> >>,
                 <<kNextIdKey, 0>>,
                 <<"a_n_1", "Tea">>, <<"a_t_1", <<"6", "x">> >>, <<"a_s_1", "ALARM3">>,
                 <<"a_t_2", <<" ", "6", "0", "0", " ">> >>, <<"a_s_2", "BEEP">> >>)

\* legacy keys with a sound outside the enumeration, next to a new-scheme name
MixedStore ==
    FromPairs(<< <<kAlarmIdsKey, <<"1">> >>,
                 <<"a_n_1", "Nap">>, <<"alarm_1", "Old">>,
                 <<"alarm_time_1", <<"1", "2", "0", "0">> >>,
                 <<"alarm_repeat_1", TRUE>>, <<"alarm_interval_1", 10>>,
                 <<"alarm_sound_1", "BEEP">> >>)

\* the largest int as stored counter and as listed id
TopStore ==
    FromPairs(<< <<kAlarmIdsKey, IntToChars(INT_MAX)>>, <<kNextIdKey, INT_MAX>>,
                 <<MakeKey(kAlarmTimeKeyPrefix, INT_MAX), <<"6", "0", "0">> >> >>)

\* three listed ids: one with a time beyond time_t, one with a name and no
\* time key at all, one with a usable time
PartialStore ==
    FromPairs(<< <<kAlarmIdsKey, <<"0", ",", "1", ",", "2">> >>, <<kNextIdKey, 1>>,
                 <<"a_t_0", IntToChars(TIME_T_MAX + 1)>>,
                 <<"a_n_1", "Tea">>,
                 <<"a_t_2", <<"6", "0", "0">> >> >>)

\* left by the previous firmware, with the time text damaged
StaleStore ==
    FromPairs(<< <<kAlarmIdsKey, <<"1">> >>, <<kNextIdKey, 2>>,
                 <<"alarm_1", "Tea">>, <<"alarm_time_1", <<"6", "x">> >>,
                 <<"alarm_repeat_1", TRUE>>, <<"alarm_interval_1", 10>> >>)

WrittenStores == <<EmptyStore, LegacyStore, CurrentStore>>
AnyStores == <<EmptyStore, DamagedStore, MixedStore, TopStore, PartialStore, StaleStore>>

Template(time, repeat, interval, name, sound) ==
    [time |-> time, repeat |-> repeat, interval |-> interval, name |-> name, sound |-> sound]

Templates ==
    {Template(600, FALSE, 0, "Tea", "ALARM2"),
     Template(0, TRUE, 10, "", "BEEP"),
     Template(1200, TRUE, 0, "Nap", "ALARM3"),
     Template(2100, FALSE, 0, "Far", "ALARM1")}

AllInts == INT_MIN..INT_MAX

AlarmInputs(ids) ==
    {Alarm(id, tm.time, tm.repeat, tm.interval, tm.name, tm.sound, NullHandle) :
        id \in ids, tm \in Templates}

\* ids a caller names itself, and ids that reach the id allocation and its limits
NamedIds == {1, 2}
AllocIds == {-1, 0, 1, INT_MAX}
\* for the operations on the Store alone: the alarms that are due first
StoreInputs == {alarm \in AlarmInputs(AllocIds) : alarm.time <= 600}

TickSteps == {600, 900}

----------------------------------------------------------------------------
(* State machine *)

Cur == [alarms |-> alarms_, next |-> next_alarm_id_, kv |-> settings_, dur |-> committed,
        timer |-> scheduler_timer_, notifier |-> cloud_notifier_, tr |-> <<>>,
        trap |-> FALSE]

IdleCallback == [pending |-> FALSE, now |-> 0]
\* the sound values that a sequence of collaborator calls wrote to the store
SoundKeys == {MakeKey(kAlarmSoundKeyPrefix, id) : id \in AllInts}
SoundsWritten(tr) ==
    {tr[k].v : k \in {j \in 1..Len(tr) : tr[j].e = "set" /\ tr[j].k \in SoundKeys}}

IsHandoff(ev) == ev.e = "handoff"
RECURSIVE Jobs(_)
\* the jobs that a sequence of collaborator calls handed to the application
\* task, in order
Jobs(tr) ==
    IF tr = <<>> THEN <<>>
    ELSE IF IsHandoff(Head(tr)) THEN <<Head(tr).v>> \o Jobs(Tail(tr))
    ELSE Jobs(Tail(tr))

RECURSIVE Releases(_)
\* the per-alarm timer handles that a sequence of collaborator calls stopped
\* and deleted, in order
Releases(tr) ==
    IF tr = <<>> THEN <<>>
    ELSE IF Head(tr).e = "release" THEN <<Head(tr).v>> \o Releases(Tail(tr))
    ELSE Releases(Tail(tr))

\* what is seen of a finished operation: its name, its return value (id for
\* AddAlarm, ok for RemoveAlarm / UpdateAlarm), the sound values it wrote, the
\* jobs it handed off and the per-alarm timers it released
Obs(op, id, ok, tr) ==
    [op |-> op, id |-> id, ok |-> ok, sounds |-> SoundsWritten(tr), jobs |-> Jobs(tr),
     released |-> Releases(tr)]

\* no notifier is installed
NotifierIdle == cloud_notifier_ = NoNotifier

\* no caller has created a per-alarm timer
HandlesIdle == handles_created = 0 /\ released = <<>>

\* the process is gone: only the committed content remains
Down(durable) ==
    [alarms |-> EmptyMap, next |-> 1, kv |-> durable, dur |-> durable,
     timer |-> IdleTimer(FALSE), notifier |-> NoNotifier, tr |-> <<>>, trap |-> TRUE]

InitFrom(M, empty) ==
    LET S == IF M.trap THEN Down(M.dur) ELSE M
    IN /\ alarms_ = S.alarms
       /\ next_alarm_id_ = S.next
       /\ settings_ = S.kv
       /\ committed = S.dur
       /\ scheduler_timer_ = S.timer
       /\ callback = IdleCallback
       /\ now = 0
       /\ alive = ~M.trap
       /\ last = Obs("Construct", 0, TRUE, M.tr)
       /\ ref = EmptyMap
       /\ refValid = (empty /\ ~M.trap)

Boot(stores, Created, Arm, replay) ==
    \E i \in 1..Len(stores), created \in Created, armOk \in Arm, ub \in UBOutcomes :
        InitFrom(Construct(stores[i], created, 0, armOk, ub), replay)

\* the method finished (or aborted) in manager state M
Finish(M, op, id, ok) ==
    LET S == IF M.trap THEN Down(M.dur) ELSE M
    IN /\ alarms_' = S.alarms
       /\ next_alarm_id_' = S.next
       /\ settings_' = S.kv
       /\ committed' = S.dur
       /\ scheduler_timer_' = S.timer
       /\ alive' = ~M.trap
       /\ last' = IF M.trap THEN Obs("abort", 0, FALSE, <<>>) ELSE Obs(op, id, ok, M.tr)

\* reference semantics replayed next to the Store
RefAdd(r, alarm, id) == Put(r, id, [alarm EXCEPT !.id = id, !.sound = NormalizeSound(alarm.sound)])
RefUpdate(r, alarm) ==
    IF alarm.id \in DOMAIN r
    THEN Put(r, alarm.id, [alarm EXCEPT !.sound = NormalizeSound(alarm.sound)])
    ELSE r
RefRemove(r, id) == IF id \in DOMAIN r THEN Del(r, id) ELSE r

Replay(r, trapped) ==
    /\ refValid' = (refValid /\ ~trapped)
    /\ ref' = IF refValid /\ ~trapped THEN r ELSE EmptyMap

\* bound of the model: an AddAlarm that would insert a new id is taken only
\* while the Store holds fewer than MaxAlarms alarms
HasRoom(alarm) ==
    LET target == IF alarm.id <= 0 THEN next_alarm_id_ ELSE alarm.id
    IN IF target \in DOMAIN alarms_ THEN TRUE
       ELSE Cardinality(DOMAIN alarms_) < MaxAlarms

AddAlarm(alarm, armOk, ub) ==
    /\ alive
    /\ HasRoom(alarm)
    /\ \E R \in {DoAddAlarm(Cur, alarm, now, armOk, ub)} :
          /\ Finish(R.M, "AddAlarm", R.ret, TRUE)
          /\ Replay(RefAdd(ref, alarm, R.ret), R.M.trap)
          /\ callback' = IF R.M.trap THEN IdleCallback ELSE callback
    /\ UNCHANGED now

RemoveAlarm(id, armOk, ub) ==
    /\ alive
    /\ \E R \in {DoRemoveAlarm(Cur, id, now, armOk, ub)} :
          /\ Finish(R.M, "RemoveAlarm", 0, R.ret)
          /\ Replay(RefRemove(ref, id), R.M.trap)
          /\ callback' = IF R.M.trap THEN IdleCallback ELSE callback
    /\ UNCHANGED now

UpdateAlarm(alarm, armOk, ub) ==
    /\ alive
    /\ \E R \in {DoUpdateAlarm(Cur, alarm, now, armOk, ub)} :
          /\ Finish(R.M, "UpdateAlarm", 0, R.ret)
          /\ Replay(RefUpdate(ref, alarm), R.M.trap)
          /\ callback' = IF R.M.trap THEN IdleCallback ELSE callback
    /\ UNCHANGED now

\* the clock advances
Tick(d) ==
    /\ alive
    /\ now + d <= MaxNow
    /\ now' = now + d
    /\ last' = Obs("Tick", 0, TRUE, <<>>)
    /\ UNCHANGED <<alarms_, next_alarm_id_, settings_, committed, scheduler_timer_,
                   callback, alive, ref, refValid>>

\* the one-shot timer expires and the timer task enters OnSchedulerTimer,
\* which reads the clock and then waits for alarms_mutex_
TimerFire ==
    /\ alive
    /\ scheduler_timer_.active
    /\ ~callback.pending
    /\ scheduler_timer_.deadline_us \div kMicrosPerSecond <= now
    /\ scheduler_timer_' = IdleTimer(TRUE)
    /\ callback' = [pending |-> TRUE, now |-> now]
    /\ last' = Obs("TimerFire", 0, TRUE, <<>>)
    /\ UNCHANGED <<alarms_, next_alarm_id_, settings_, committed, now, alive, ref, refValid>>

\* OnSchedulerTimer from the lock to its return
OnSchedulerTimer(armOk, ub) ==
    /\ alive
    /\ callback.pending
    /\ Finish(DoOnSchedulerTimer(Cur, callback.now, now, armOk, ub),
              "OnSchedulerTimer", 0, TRUE)
    /\ callback' = IdleCallback
    /\ refValid' = FALSE
    /\ ref' = EmptyMap
    /\ UNCHANGED now

\* power cycle: a new manager is constructed from the committed content
Restart(created, armOk, ub) ==
    /\ Finish(Construct(committed, created, now, armOk, ub), "Construct", 0, TRUE)
    /\ callback' = IdleCallback
    /\ refValid' = FALSE
    /\ ref' = EmptyMap
    /\ UNCHANGED now

Step(Inputs, Created, Arm) ==
    \/ \E alarm \in Inputs, armOk \in Arm, ub \in UBOutcomes :
          AddAlarm(alarm, armOk, ub) /\ UNCHANGED aside
    \/ \E id \in AllInts, armOk \in Arm, ub \in UBOutcomes :
          RemoveAlarm(id, armOk, ub) /\ UNCHANGED aside
    \/ \E alarm \in Inputs, armOk \in Arm, ub \in UBOutcomes :
          UpdateAlarm(alarm, armOk, ub) /\ UNCHANGED aside
    \/ \E d \in TickSteps : Tick(d) /\ UNCHANGED aside
    \/ TimerFire /\ UNCHANGED aside
    \/ \E armOk \in Arm, ub \in UBOutcomes : OnSchedulerTimer(armOk, ub) /\ UNCHANGED aside
    \/ \E created \in Created, armOk \in Arm, ub \in UBOutcomes :
          Restart(created, armOk, ub) /\ UNCHANGED aside

\* two tasks that call the manager, and the task that runs the timer callback
Threads == {"app1", "app2", "timer"}
NoOwner == "none"
IdleThread == [op |-> "idle", arg |-> 0, stack |-> <<>>]

\* variant: ScheduleNextLocked takes the lock itself, as ScheduleNext does
Code_Relock(f) ==
    IF f \in {"AddAlarm", "OnSchedulerTimer"}
        THEN <<"lock", "table", "ScheduleNextLocked", "ret">>
    ELSE IF f \in {"RemoveAlarm", "UpdateAlarm"}
        THEN <<"lock", "find", "table", "ScheduleNextLocked", "ret">>
    ELSE IF f \in {"GetAlarm", "GetAlarms"} THEN <<"lock", "table", "ret">>
    ELSE IF f = "ScheduleNext" THEN <<"lock", "ScheduleNextLocked", "ret">>
    ELSE <<"lock", "table", "ret">>

\* the body of each function as far as the lock and the table are concerned:
\* "lock" is the lock_guard on alarms_mutex_, "table" a statement that reads
\* or writes alarms_, "find" the lookup after which RemoveAlarm and UpdateAlarm
\* return early, a function name a call, "ret" the return (which ends the
\* lock_guard)
Code(f) ==
    IF f \in {"AddAlarm", "OnSchedulerTimer"}
        THEN <<"lock", "table", "ScheduleNextLocked", "ret">>
    ELSE IF f \in {"RemoveAlarm", "UpdateAlarm"}
        THEN <<"lock", "find", "table", "ScheduleNextLocked", "ret">>
    ELSE IF f \in {"GetAlarm", "GetAlarms"} THEN <<"lock", "table", "ret">>
    ELSE IF f = "ScheduleNext" THEN <<"lock", "ScheduleNextLocked", "ret">>
    ELSE <<"table", "ret">>

----------------------------------------------------------------------------
(* The request parser (alarm_parser.cc) *)

kMinDelaySeconds == 1
kMaxDelaySeconds == 24 * 60 * 60
kMinHour == 0
kMaxHour == 23
kMinMinute == 0
kMaxMinute == 59
kMinIntervalMinutes == 1
kMaxIntervalMinutes == 7 * 24 * 60

\* a member of the cJSON object as the code sees it: missing, or with a type
\* and the valueint of the item
Missing == [kind |-> "none", valueint |-> 0]
Number(n) == [kind |-> "number", valueint |-> n]
Bool(b) == [kind |-> "bool", valueint |-> IF b THEN 1 ELSE 0]
Text == [kind |-> "string", valueint |-> 0]
NotObject == [kind |-> "array"]
Object(delay, hour, minute, repeat, interval) ==
    [kind |-> "object", delay |-> delay, hour |-> hour, minute |-> minute,
     repeat |-> repeat, interval |-> interval]

\* the value, or nullopt with or without an error message
GetOptionalInt(item, name) ==
    IF item.kind = "none" THEN [ok |-> FALSE, v |-> 0, error_message |-> ""]
    ELSE IF item.kind # "number"
    THEN [ok |-> FALSE, v |-> 0, error_message |-> "integer expected"]
    ELSE [ok |-> TRUE, v |-> item.valueint, error_message |-> ""]

GetOptionalBool(item, name) ==
    IF item.kind = "none" THEN [ok |-> FALSE, v |-> FALSE, error_message |-> ""]
    ELSE IF item.kind # "bool"
    THEN [ok |-> FALSE, v |-> FALSE, error_message |-> "boolean expected"]
    ELSE [ok |-> TRUE, v |-> (item.valueint = 1), error_message |-> ""]

ValidateRange(value, min_value, max_value) ==
    IF ~value.ok THEN TRUE
    ELSE ~(value.v < min_value \/ value.v > max_value)

kDelay == "delay"
kTimeOfDay == "time"

\* snprintf "alarm-%s-%llu-%u"
FormatAlarmId(trigger_type, timestamp_us, counter) ==
    <<"alarm-", trigger_type, "-">> \o NatToChars(timestamp_us) \o <<"-">>
        \o NatToChars(counter)

\* a default-constructed AlarmScheduleRequest / AlarmParseResult
NoRequest ==
    [id |-> <<>>, delay_seconds |-> NoValue, hour |-> NoValue, minute |-> NoValue,
     repeat |-> FALSE, interval_minutes |-> NoValue, trigger_type |-> kDelay]
Failure(error_message) ==
    [success |-> FALSE, request |-> NoRequest, error_message |-> error_message]

Opt(value) == IF value.ok THEN Some(value.v) ELSE NoValue

\* the checks of ParseAlarmRequest after the five members have been read
\* without a type error; the result and whether GenerateAlarmId was called
CheckRequest(delay, hour, minute, repeat, interval, timestamp_us, counter) ==
    IF delay.ok /\ (hour.ok \/ minute.ok) THEN Failure("delay together with hour/minute")
    ELSE IF ~delay.ok /\ ~(hour.ok \/ minute.ok) THEN Failure("delay or hour/minute needed")
    ELSE IF minute.ok /\ ~hour.ok THEN Failure("minute needs hour")
    ELSE IF hour.ok /\ ~minute.ok THEN Failure("hour needs minute")
    ELSE IF ~ValidateRange(delay, kMinDelaySeconds, kMaxDelaySeconds)
        THEN Failure("delay out of range")
    ELSE IF ~ValidateRange(hour, kMinHour, kMaxHour) THEN Failure("hour out of range")
    ELSE IF ~ValidateRange(minute, kMinMinute, kMaxMinute) THEN Failure("minute out of range")
    ELSE IF ~ValidateRange(interval, kMinIntervalMinutes, kMaxIntervalMinutes)
        THEN Failure("interval out of range")
    ELSE IF (repeat.ok /\ repeat.v) /\ ~interval.ok THEN Failure("repeat needs interval")
    ELSE IF ~(repeat.ok /\ repeat.v) /\ interval.ok THEN Failure("interval without repeat")
    ELSE [success |-> TRUE,
          request |-> [id |-> FormatAlarmId(IF delay.ok THEN kDelay ELSE kTimeOfDay,
                                            timestamp_us, counter),
                       delay_seconds |-> Opt(delay), hour |-> Opt(hour),
                       minute |-> Opt(minute), repeat |-> (repeat.ok /\ repeat.v),
                       interval_minutes |-> Opt(interval),
                       trigger_type |-> IF delay.ok THEN kDelay ELSE kTimeOfDay],
          error_message |-> ""]

\* the first type error among the five members, in the order they are read
TypeError(args) ==
    IF GetOptionalInt(args.delay, "delay").error_message # ""
        THEN GetOptionalInt(args.delay, "delay").error_message
    ELSE IF GetOptionalInt(args.hour, "hour").error_message # ""
        THEN GetOptionalInt(args.hour, "hour").error_message
    ELSE IF GetOptionalInt(args.minute, "minute").error_message # ""
        THEN GetOptionalInt(args.minute, "minute").error_message
    ELSE IF GetOptionalBool(args.repeat, "repeat").error_message # ""
        THEN GetOptionalBool(args.repeat, "repeat").error_message
    ELSE GetOptionalInt(args.interval, "interval").error_message

\* variant: the interval is not looked at when repeat is false
ParseAlarmRequest_LooseInterval(args, timestamp_us, counter) ==
    IF args.kind # "object" THEN Failure("arguments must be a JSON object")
    ELSE IF TypeError(args) # "" THEN Failure(TypeError(args))
    ELSE CheckRequest(GetOptionalInt(args.delay, "delay"),
                      GetOptionalInt(args.hour, "hour"),
                      GetOptionalInt(args.minute, "minute"),
                      GetOptionalBool(args.repeat, "repeat"),
                      IF GetOptionalBool(args.repeat, "repeat").v
                      THEN GetOptionalInt(args.interval, "interval")
                      ELSE GetOptionalInt(Missing, "interval"),
                      timestamp_us, counter)

\* ParseAlarmRequest, with the microsecond clock and the counter value that
\* GenerateAlarmId takes if it is reached
ParseAlarmRequest(args, timestamp_us, counter) ==
    IF args.kind # "object" THEN Failure("arguments must be a JSON object")
    ELSE IF TypeError(args) # "" THEN Failure(TypeError(args))
    ELSE CheckRequest(GetOptionalInt(args.delay, "delay"),
                      GetOptionalInt(args.hour, "hour"),
                      GetOptionalInt(args.minute, "minute"),
                      GetOptionalBool(args.repeat, "repeat"),
                      GetOptionalInt(args.interval, "interval"),
                      timestamp_us, counter)

\* std::atomic<uint32_t>::fetch_add(1): the value after it
FetchAdd(counter) == (counter + 1) % (UINT32_MAX + 1)

NoCall == [busy |-> FALSE, trigger_type |-> kDelay, timestamp_us |-> 0]
GenTasks == {"g1", "g2"}

ParserIdle ==
    /\ arguments = NotObject
    /\ result = [calls |-> 0, r |-> Failure("")]
    /\ g_alarm_counter = 0
    /\ esp_time = 0
    /\ stamped = 0
    /\ generating = [t \in GenTasks |-> NoCall]
    /\ returned = <<>>

----------------------------------------------------------------------------
(* The application's wake word and alarm playback handling
   (test_wake_word_dismissal.cpp) *)

DeviceStates ==
    {"kDeviceStateUnknown", "kDeviceStateStarting", "kDeviceStateConfiguring",
     "kDeviceStateIdle", "kDeviceStateConnecting", "kDeviceStateListening",
     "kDeviceStateSpeaking", "kDeviceStateUpgrading", "kDeviceStateActivating",
     "kDeviceStateAudioTesting", "kDeviceStateFatalError", "kDeviceStateInvalid"}
ListeningModes == {"kListeningModeAutoStop", "kListeningModeRealtime"}

FakeAudioService == [events |-> <<>>, wake_word_enabled |-> FALSE, wake_word_encoded |-> FALSE]
\* protocol == nullptr, or the FakeProtocol it points to
NoProtocol == [null |-> TRUE, audio_channel_open |-> FALSE, open_should_succeed |-> FALSE,
               events |-> <<>>]
FakeProtocol(audio_channel_open, open_should_succeed) ==
    [null |-> FALSE, audio_channel_open |-> audio_channel_open,
     open_should_succeed |-> open_should_succeed, events |-> <<>>]

TestApplication ==
    [audio_service |-> FakeAudioService, protocol |-> NoProtocol,
     device_state |-> "kDeviceStateUnknown", listening_mode |-> "kListeningModeAutoStop",
     alarm_playback_active |-> FALSE, active_alarm_id |-> -1]

ResetDecoder(audio) == [audio EXCEPT !.events = Append(@, "reset_decoder")]
PlaySound(audio) == [audio EXCEPT !.events = Append(@, "play_sound")]
EncodeWakeWord(audio) == [audio EXCEPT !.wake_word_encoded = TRUE]
EnableWakeWordDetection(audio, enable) ==
    [audio EXCEPT !.events = Append(@, IF enable THEN "wake_word_detection_on"
                                       ELSE "wake_word_detection_off"),
                  !.wake_word_enabled = enable]

\* the protocol after OpenAudioChannel; the call returns open_should_succeed
OpenAudioChannel(protocol) ==
    IF protocol.open_should_succeed
    THEN [protocol EXCEPT !.audio_channel_open = TRUE, !.events = Append(@, "open_success")]
    ELSE [protocol EXCEPT !.events = Append(@, "open_failure")]
SendWakeWordDetected(protocol, wake_word) ==
    [protocol EXCEPT !.events = Append(@, <<"wake_word:", wake_word>>)]
GetLastWakeWord == "xiaozhi"

\* variant: the decoder is reset whether or not playback is active
StopAlarmPlayback_Always(a) ==
    [a EXCEPT !.alarm_playback_active = FALSE,
              !.active_alarm_id = -1,
              !.audio_service = ResetDecoder(@)]

StopAlarmPlayback(a) ==
    IF ~a.alarm_playback_active THEN a
    ELSE [a EXCEPT !.alarm_playback_active = FALSE,
                   !.active_alarm_id = -1,
                   !.audio_service = ResetDecoder(@)]

\* variant: the alarm is cleaned up on the way to the greeting as well
Greet_Cleanup(a) ==
    [StopAlarmPlayback(a) EXCEPT !.protocol = SendWakeWordDetected(@, GetLastWakeWord),
                                 !.listening_mode = "kListeningModeAutoStop",
                                 !.audio_service = PlaySound(@)]

\* the idle branch of OnWakeWordDetected once the audio channel is open
Greet(a) ==
    [a EXCEPT !.protocol = SendWakeWordDetected(@, GetLastWakeWord),
              !.listening_mode = "kListeningModeAutoStop",
              !.audio_service = PlaySound(@)]

\* variant: when the channel cannot be opened, detection is switched on
\* before the alarm is stopped
OnWakeWordDetected_Reordered(a) ==
    IF ~a.protocol.null /\ a.device_state = "kDeviceStateIdle"
       /\ ~a.protocol.audio_channel_open /\ ~a.protocol.open_should_succeed
    THEN StopAlarmPlayback(
             [a EXCEPT !.audio_service = EnableWakeWordDetection(EncodeWakeWord(@), TRUE),
                       !.device_state = "kDeviceStateConnecting",
                       !.protocol = OpenAudioChannel(@)])
    ELSE IF a.protocol.null THEN a
    ELSE IF a.device_state = "kDeviceStateIdle"
    THEN Greet([a EXCEPT !.audio_service = EncodeWakeWord(@),
                         !.device_state = IF a.protocol.audio_channel_open
                                          THEN @ ELSE "kDeviceStateConnecting",
                         !.protocol = IF a.protocol.audio_channel_open
                                      THEN @ ELSE OpenAudioChannel(@)])
    ELSE IF a.device_state = "kDeviceStateActivating"
    THEN [a EXCEPT !.device_state = "kDeviceStateIdle"]
    ELSE a

OnWakeWordDetected(a) ==
    IF a.protocol.null THEN a
    ELSE IF a.device_state = "kDeviceStateIdle"
    THEN IF ~a.protocol.audio_channel_open
         THEN IF ~a.protocol.open_should_succeed
              THEN [StopAlarmPlayback(
                        [a EXCEPT !.audio_service = EncodeWakeWord(@),
                                  !.device_state = "kDeviceStateConnecting",
                                  !.protocol = OpenAudioChannel(@)])
                    EXCEPT !.audio_service = EnableWakeWordDetection(@, TRUE)]
              ELSE Greet([a EXCEPT !.audio_service = EncodeWakeWord(@),
                                   !.device_state = "kDeviceStateConnecting",
                                   !.protocol = OpenAudioChannel(@)])
         ELSE Greet([a EXCEPT !.audio_service = EncodeWakeWord(@)])
    ELSE IF a.device_state = "kDeviceStateSpeaking" THEN a
    ELSE IF a.device_state = "kDeviceStateActivating"
    THEN [a EXCEPT !.device_state = "kDeviceStateIdle"]
    ELSE a

AppIdle ==
    /\ app = TestApplication
    /\ app_last = [op |-> "none", before |-> TestApplication, n |-> 0]

\* nothing outside the manager has happened yet
AsideIdle ==
    /\ alarms_mutex_ = NoOwner
    /\ threads = [t \in Threads |-> IdleThread]
    /\ relocked = FALSE
    /\ scheduled = <<>>
    /\ issued = EmptyMap
    /\ allocated = <<>>
    /\ HandlesIdle
    /\ NotifierIdle
    /\ ParserIdle
    /\ AppIdle

\* Spec, SpecAny and SpecStore follow the manager alone: the jobs of a pass are
\* seen in last.jobs
Init == Boot(WrittenStores, {TRUE}, {TRUE}, FALSE) /\ AsideIdle
Next == Step(AlarmInputs(NamedIds), {TRUE}, {TRUE})
Spec == Init /\ [][Next]_vars

\* the same operations on content that no firmware version wrote as it is
InitAny == Boot(AnyStores, {TRUE}, {TRUE}, FALSE) /\ AsideIdle
NextAny == Step(AlarmInputs({1}), {TRUE}, {TRUE})
SpecAny == InitAny /\ [][NextAny]_vars

\* Add / Update / Remove alone on an initially empty Store, with ids that reach
\* the id allocation, replayed on the reference map
InitStore == Boot(<<EmptyStore>>, {TRUE}, {TRUE}, TRUE) /\ AsideIdle
NextStore ==
    \/ \E alarm \in StoreInputs, ub \in UBOutcomes : AddAlarm(alarm, TRUE, ub) /\ UNCHANGED aside
    \/ \E id \in AllInts, ub \in UBOutcomes : RemoveAlarm(id, TRUE, ub) /\ UNCHANGED aside
    \/ \E alarm \in StoreInputs, ub \in UBOutcomes :
          UpdateAlarm(alarm, TRUE, ub) /\ UNCHANGED aside
SpecStore == InitStore /\ [][NextStore]_vars

\* the manager, its store, its timer and the clock
manager == <<alarms_, next_alarm_id_, settings_, committed, scheduler_timer_,
             callback, now, alive, last, ref, refValid>>

Running(t) == threads[t].stack # <<>>
Top(t) == threads[t].stack[Len(threads[t].stack)]
Instr(t) == Code(Top(t).f)[Top(t).i]
MoveTo(stack, i) == [stack EXCEPT ![Len(stack)].i = i]
ArgId(t) == IF threads[t].op \in {"AddAlarm", "UpdateAlarm"} THEN threads[t].arg.id
            ELSE threads[t].arg

\* a task calls a method of the manager
Call(t, op, arg) ==
    /\ alive
    /\ ~relocked
    /\ ~Running(t)
    /\ threads' = [threads EXCEPT ![t] = [op |-> op, arg |-> arg,
                                          stack |-> <<[f |-> op, i |-> 1]>>]]
    /\ UNCHANGED <<manager, scheduled, issued, alarms_mutex_, relocked>>

\* the timer expires and the timer task enters OnSchedulerTimer
Expire ==
    /\ ~relocked
    /\ ~Running("timer")
    /\ TimerFire
    /\ threads' = [threads EXCEPT !["timer"] =
                       [op |-> "OnSchedulerTimer", arg |-> 0,
                        stack |-> <<[f |-> "OnSchedulerTimer", i |-> 1]>>]]
    /\ UNCHANGED <<scheduled, issued, alarms_mutex_, relocked>>

\* std::lock_guard<std::mutex> lock(alarms_mutex_): waits while another thread
\* holds the mutex; locking a mutex the thread holds itself is undefined
Lock(t) ==
    /\ alive
    /\ ~relocked
    /\ Running(t)
    /\ Instr(t) = "lock"
    /\ alarms_mutex_ \in {NoOwner, t}
    /\ IF alarms_mutex_ = t
       THEN relocked' = TRUE /\ UNCHANGED <<threads, alarms_mutex_>>
       ELSE /\ alarms_mutex_' = t
            /\ threads' = [threads EXCEPT ![t].stack = MoveTo(@, Top(t).i + 1)]
            /\ UNCHANGED relocked
    /\ UNCHANGED <<manager, scheduled, issued>>

\* a statement that reads or writes alarms_; after a lookup that finds
\* nothing the function returns
Touch(t) ==
    /\ alive
    /\ ~relocked
    /\ Running(t)
    /\ Instr(t) \in {"table", "find"}
    /\ threads' = [threads EXCEPT ![t].stack =
                       MoveTo(@, IF Instr(t) = "find" /\ ArgId(t) \notin DOMAIN alarms_
                                 THEN Len(Code(Top(t).f))
                                 ELSE Top(t).i + 1)]
    /\ UNCHANGED <<manager, scheduled, issued, alarms_mutex_, relocked>>

\* a call of another member function
Enter(t) ==
    /\ alive
    /\ ~relocked
    /\ Running(t)
    /\ Instr(t) \notin {"lock", "table", "find", "ret"}
    /\ threads' = [threads EXCEPT ![t].stack =
                       Append(MoveTo(@, Top(t).i + 1), [f |-> Instr(t), i |-> 1])]
    /\ UNCHANGED <<manager, scheduled, issued, alarms_mutex_, relocked>>

GetAlarmCall(id) ==
    /\ last' = Obs("GetAlarm", id, GetAlarm(alarms_, id).ok, <<>>)
    /\ UNCHANGED <<alarms_, next_alarm_id_, settings_, committed, scheduler_timer_,
                   callback, now, alive, ref, refValid>>

GetAlarmsCall ==
    /\ last' = Obs("GetAlarms", Len(GetAlarms(alarms_)), TRUE, <<>>)
    /\ UNCHANGED <<alarms_, next_alarm_id_, settings_, committed, scheduler_timer_,
                   callback, now, alive, ref, refValid>>

ScheduleNextCall(armOk, ub) ==
    /\ \E R \in {ScheduleNextLocked(Cur, now, armOk, ub)} :
          /\ Finish(R, "ScheduleNext", 0, TRUE)
          /\ callback' = IF R.trap THEN IdleCallback ELSE callback
    /\ UNCHANGED <<now, ref, refValid>>

\* what the method has done to the manager when it releases the lock
Effect(op, arg, ub) ==
    \/ op = "AddAlarm" /\ AddAlarm(arg, TRUE, ub)
    \/ op = "RemoveAlarm" /\ RemoveAlarm(arg, TRUE, ub)
    \/ op = "UpdateAlarm" /\ UpdateAlarm(arg, TRUE, ub)
    \/ op = "GetAlarm" /\ GetAlarmCall(arg)
    \/ op = "GetAlarms" /\ GetAlarmsCall
    \/ op = "ScheduleNext" /\ ScheduleNextCall(TRUE, ub)
    \/ op = "OnSchedulerTimer" /\ OnSchedulerTimer(TRUE, ub)

\* return of the function on top of the stack; the lock_guard of a function
\* that has one ends here, and the return of the method itself ends the call
Return(t, ub) ==
    /\ alive
    /\ ~relocked
    /\ Running(t)
    /\ Instr(t) = "ret"
    /\ alarms_mutex_' = IF Code(Top(t).f)[1] = "lock" THEN NoOwner ELSE alarms_mutex_
    /\ IF Len(threads[t].stack) = 1
       THEN /\ Effect(threads[t].op, threads[t].arg, ub)
            /\ threads' = [threads EXCEPT ![t] = IdleThread]
       ELSE /\ threads' = [threads EXCEPT ![t].stack = SubSeq(@, 1, Len(@) - 1)]
            /\ UNCHANGED manager
    /\ UNCHANGED <<scheduled, issued, relocked>>

\* the repeating alarm that is due at once, under id 1
LockInputs == {alarm \in AlarmInputs({1}) : alarm.time = 0}
Callers == Threads \ {"timer"}

\* the actions of SpecLock name jobvars themselves
notLock == <<allocated, handlevars, notifiervars, parservars, appvars>>

InitLock == Boot(<<EmptyStore>>, {TRUE}, {TRUE}, FALSE) /\ AsideIdle
NextLock ==
    \/ \E t \in Callers, alarm \in LockInputs : Call(t, "AddAlarm", alarm) /\ UNCHANGED notLock
    \/ \E t \in Callers : Call(t, "RemoveAlarm", 1) /\ UNCHANGED notLock
    \/ \E t \in Callers, alarm \in LockInputs :
          Call(t, "UpdateAlarm", alarm) /\ UNCHANGED notLock
    \/ \E t \in Callers : Call(t, "GetAlarm", 1) /\ UNCHANGED notLock
    \/ \E t \in Callers : Call(t, "GetAlarms", 0) /\ UNCHANGED notLock
    \/ \E t \in Callers : Call(t, "ScheduleNext", 0) /\ UNCHANGED notLock
    \/ Expire /\ UNCHANGED notLock
    \/ \E t \in Threads : Lock(t) /\ UNCHANGED notLock
    \/ \E t \in Threads : Touch(t) /\ UNCHANGED notLock
    \/ \E t \in Threads : Enter(t) /\ UNCHANGED notLock
    \/ \E t \in Threads, ub \in UBOutcomes : Return(t, ub) /\ UNCHANGED notLock
SpecLock == InitLock /\ [][NextLock]_vars

\* AddAlarm, with the id it allocates noted
AddAlloc(alarm, ub) ==
    /\ alarm.id <= 0 => Len(allocated) < MaxAllocs
    /\ AddAlarm(alarm, TRUE, ub)
    /\ allocated' = IF alive' /\ alarm.id <= 0 THEN Append(allocated, last'.id)
                    ELSE allocated
    /\ UNCHANGED <<jobvars, lockvars, handlevars, notifiervars, parservars, appvars>>

\* one alarm, to be given an id by the manager or stored under id 1 or under
\* the largest id
AllocInputs == {alarm \in AlarmInputs({0, 1, INT_MAX}) : alarm.time = 600}

\* the ids removed by a caller: the first and the last id allocated from an
\* empty Store, the largest id and the id that follows it on a wrapping build
AllocRemoved == {INT_MIN, 1, MaxAllocs, INT_MAX}

\* all operations and restarts, on an initially empty Store
InitAlloc == Boot(<<EmptyStore>>, {TRUE}, {TRUE}, FALSE) /\ AsideIdle
NextAlloc ==
    \/ \E alarm \in AllocInputs, ub \in UBOutcomes : AddAlloc(alarm, ub)
    \/ \E id \in AllocRemoved, ub \in UBOutcomes :
          RemoveAlarm(id, TRUE, ub) /\ UNCHANGED aside
    \/ \E alarm \in AllocInputs, ub \in UBOutcomes :
          UpdateAlarm(alarm, TRUE, ub) /\ UNCHANGED aside
    \/ \E d \in TickSteps : Tick(d) /\ UNCHANGED aside
    \/ TimerFire /\ UNCHANGED aside
    \/ \E ub \in UBOutcomes : OnSchedulerTimer(TRUE, ub) /\ UNCHANGED aside
    \/ \E ub \in UBOutcomes : Restart(TRUE, TRUE, ub) /\ UNCHANGED aside
SpecAlloc == InitAlloc /\ [][NextAlloc]_vars

\* the lambda handed to Application::Schedule, run by the main loop: what it
\* shows, plays and passes to the notifier (a notifier is registered). It has
\* its captures and nothing else; alarms is the Store at the time it runs
ExecuteJob_ByReference(job, alarms) ==
    [shown |-> job.notification,
     played |-> <<job.sound_clip, job.alarm.id>>,
     notified |-> IF job.alarm.id \in DOMAIN alarms THEN alarms[job.alarm.id]
                  ELSE job.alarm]

ExecuteJob(job, alarms) ==
    [shown |-> job.notification,
     played |-> <<job.sound_clip, job.alarm.id>>,
     notified |-> job.alarm]

\* variant: the lambda captures this and reads cloud_notifier_ when it runs
Invokes_Installed(job) == cloud_notifier_

\* if (notifier) { notifier(alarm_copy); }: the callback that the job calls,
\* NoNotifier when the captured std::function is empty
Invokes(job) == job.notifier

\* the jobs of a pass, each with the record its alarm had when the pass began
\* and the notifier that was installed during the pass
Handed(jobs, due_ids, before) ==
    [k \in 1..Len(jobs) |->
        [job |-> jobs[k], fired |-> before[due_ids[k]], installed |-> cloud_notifier_]]

\* the jobs waiting in the main loop are lost with the process
KeepJobs == scheduled' = IF alive' THEN scheduled ELSE <<>>

RECURSIVE Issue(_, _)
\* the labels of the jobs of a pass, noted under the ids of their alarms; the
\* jobs of an alarm that has been repeating are not followed
Issue(h, jobs) ==
    IF jobs = <<>> THEN h
    ELSE IF h[Head(jobs).alarm.id].plain
    THEN Issue([h EXCEPT ![Head(jobs).alarm.id].labels = Append(@, Head(jobs).notification)],
               Tail(jobs))
    ELSE Issue(h, Tail(jobs))

\* AddAlarm with the queue of the main loop: the returned id starts anew
AddJob(alarm, ub) ==
    /\ AddAlarm(alarm, TRUE, ub)
    /\ KeepJobs
    /\ issued' = IF alive'
                 THEN Put(issued, last'.id, [plain |-> ~alarm.repeat, labels |-> <<>>])
                 ELSE issued

RemoveJob(id, ub) ==
    /\ RemoveAlarm(id, TRUE, ub)
    /\ KeepJobs
    /\ UNCHANGED issued

UpdateJob(alarm, ub) ==
    /\ UpdateAlarm(alarm, TRUE, ub)
    /\ KeepJobs
    /\ issued' = IF alive' /\ last'.ok /\ alarm.repeat
                 THEN [issued EXCEPT ![alarm.id].plain = FALSE]
                 ELSE issued

\* OnSchedulerTimer with the queue of the main loop
Dispatch(armOk, ub) ==
    /\ Len(scheduled) + Len(DueIds(alarms_, callback.now)) <= MaxJobs
    /\ OnSchedulerTimer(armOk, ub)
    /\ scheduled' = IF alive'
                    THEN scheduled \o Handed(last'.jobs, DueIds(alarms_, callback.now), alarms_)
                    ELSE <<>>
    /\ issued' = Issue(issued, last'.jobs)

\* the main loop runs the oldest job
RunJob ==
    /\ alive
    /\ scheduled # <<>>
    /\ scheduled' = Tail(scheduled)
    /\ last' = [op |-> "RunJob", id |-> Head(scheduled).job.alarm.id, ok |-> TRUE,
                sounds |-> {}, jobs |-> <<ExecuteJob(Head(scheduled).job, alarms_)>>,
                released |-> <<>>, notifier |-> Invokes(Head(scheduled).job)]
    /\ UNCHANGED <<alarms_, next_alarm_id_, settings_, committed, scheduler_timer_,
                   callback, now, alive, ref, refValid, issued>>

\* the alarms due within the first clock step
JobInputs == {alarm \in AlarmInputs({1}) : alarm.time <= 600}

notJobs == <<lockvars, allocated, handlevars, notifiervars, parservars, appvars>>

\* no job is waiting, and the alarms that the load found are followed
JobsIdle ==
    /\ alarms_mutex_ = NoOwner
    /\ threads = [t \in Threads |-> IdleThread]
    /\ relocked = FALSE
    /\ scheduled = <<>>
    /\ issued = [id \in DOMAIN alarms_ |-> [plain |-> ~alarms_[id].repeat, labels |-> <<>>]]
    /\ allocated = <<>>
    /\ HandlesIdle
    /\ cloud_notifier_ = "cloud"
    /\ ParserIdle
    /\ AppIdle

InitJobs == Boot(<<EmptyStore, CurrentStore>>, {TRUE}, {TRUE}, FALSE) /\ JobsIdle
NextJobs ==
    \/ \E alarm \in JobInputs, ub \in UBOutcomes : AddJob(alarm, ub) /\ UNCHANGED notJobs
    \/ \E id \in NamedIds, ub \in UBOutcomes : RemoveJob(id, ub) /\ UNCHANGED notJobs
    \/ \E alarm \in JobInputs, ub \in UBOutcomes : UpdateJob(alarm, ub) /\ UNCHANGED notJobs
    \/ \E d \in TickSteps : Tick(d) /\ UNCHANGED aside
    \/ TimerFire /\ UNCHANGED aside
    \/ \E ub \in UBOutcomes : Dispatch(TRUE, ub) /\ UNCHANGED notJobs
    \/ RunJob /\ UNCHANGED notJobs
    \/ \E ub \in UBOutcomes :
          Restart(TRUE, TRUE, ub) /\ scheduled' = <<>> /\ UNCHANGED <<issued, notJobs>>
SpecJobs == InitJobs /\ [][NextJobs]_vars

----------------------------------------------------------------------------
(* The manager on a timer subsystem whose esp_timer_start_once can fail at
   any call *)

ArmInputs == {alarm \in AlarmInputs(NamedIds) : alarm.time <= 600}

InitArm == Boot(<<EmptyStore, CurrentStore>>, {TRUE}, BOOLEAN, FALSE) /\ AsideIdle
NextArm ==
    \/ \E alarm \in ArmInputs, armOk \in BOOLEAN, ub \in UBOutcomes :
          AddAlarm(alarm, armOk, ub) /\ UNCHANGED aside
    \/ \E id \in NamedIds, armOk \in BOOLEAN, ub \in UBOutcomes :
          RemoveAlarm(id, armOk, ub) /\ UNCHANGED aside
    \/ \E alarm \in ArmInputs, armOk \in BOOLEAN, ub \in UBOutcomes :
          UpdateAlarm(alarm, armOk, ub) /\ UNCHANGED aside
    \/ \E d \in TickSteps : Tick(d) /\ UNCHANGED aside
    \/ TimerFire /\ UNCHANGED aside
    \/ \E armOk \in BOOLEAN, ub \in UBOutcomes :
          OnSchedulerTimer(armOk, ub) /\ UNCHANGED aside
    \/ \E armOk \in BOOLEAN, ub \in UBOutcomes :
          Restart(TRUE, armOk, ub) /\ UNCHANGED aside
SpecArm == InitArm /\ [][NextArm]_vars

----------------------------------------------------------------------------
(* The cloud notifier: the application installs, replaces and clears it while
   alarms fire and their jobs wait in the main loop *)

SetCloudNotifier(notifier) ==
    /\ alive
    /\ cloud_notifier_' = notifier
    /\ last' = Obs("SetCloudNotifier", 0, TRUE, <<>>)
    /\ UNCHANGED <<alarms_, next_alarm_id_, settings_, committed, scheduler_timer_,
                   callback, now, alive, ref, refValid>>

notNotifier == <<jobvars, lockvars, allocated, handlevars, parservars, appvars>>

\* a repeating alarm, which fires again and again
NotifyInputs == {alarm \in JobInputs : alarm.repeat}

InitNotify == InitJobs
NextNotify ==
    \/ \E alarm \in NotifyInputs, ub \in UBOutcomes : AddJob(alarm, ub) /\ UNCHANGED notJobs
    \/ \E d \in TickSteps : Tick(d) /\ UNCHANGED aside
    \/ TimerFire /\ UNCHANGED aside
    \/ \E ub \in UBOutcomes : Dispatch(TRUE, ub) /\ UNCHANGED notJobs
    \/ RunJob /\ UNCHANGED notJobs
    \/ \E notifier \in Notifiers \cup {NoNotifier} :
          SetCloudNotifier(notifier) /\ UNCHANGED notNotifier
SpecNotify == InitNotify /\ [][NextNotify]_vars

----------------------------------------------------------------------------
(* Per-alarm timers: a caller creates an esp_timer for an alarm and passes its
   handle in the timer_handle field; the manager stops and deletes the handles
   it lets go of.  A caller passes no handle, a timer it has just created, or
   the handle of the record it read from the Store under the same id *)

HandleInputs ==
    {alarm \in AlarmInputs(NamedIds) : alarm.time <= 600 /\ (alarm.id = 2 => ~alarm.repeat)}

\* the handles a caller can put into an alarm with this id
CallerHandles(id) ==
    {NullHandle}
        \cup (IF handles_created < MaxHandles THEN {handles_created + 1} ELSE {})
        \cup (IF id \in DOMAIN alarms_ THEN {alarms_[id].timer_handle} ELSE {})

\* the timers created and released by a manager operation that was given handle
TrackHandles(handle) ==
    /\ handles_created' = IF handle > handles_created THEN handle ELSE handles_created
    /\ released' = released \o last'.released
    /\ UNCHANGED <<jobvars, lockvars, allocated, notifiervars, parservars, appvars>>

AddWithHandle(alarm, handle, ub) ==
    /\ AddAlarm([alarm EXCEPT !.timer_handle = handle], TRUE, ub)
    /\ TrackHandles(handle)

\* a timer is created for an alarm that is in the Store: a handle that
\* UpdateAlarm refuses stays with its caller
UpdateWithHandle(alarm, handle, ub) ==
    /\ handle > handles_created => alarm.id \in DOMAIN alarms_
    /\ UpdateAlarm([alarm EXCEPT !.timer_handle = handle], TRUE, ub)
    /\ TrackHandles(handle)

InitHandles == Boot(<<EmptyStore>>, {TRUE}, {TRUE}, FALSE) /\ AsideIdle
NextHandles ==
    \/ \E alarm \in HandleInputs, ub \in UBOutcomes :
          \E handle \in CallerHandles(alarm.id) : AddWithHandle(alarm, handle, ub)
    \/ \E alarm \in HandleInputs, ub \in UBOutcomes :
          \E handle \in CallerHandles(alarm.id) : UpdateWithHandle(alarm, handle, ub)
    \/ \E id \in NamedIds, ub \in UBOutcomes :
          RemoveAlarm(id, TRUE, ub) /\ TrackHandles(NullHandle)
    \/ \E d \in TickSteps : Tick(d) /\ UNCHANGED aside
    \/ TimerFire /\ UNCHANGED aside
    \/ \E ub \in UBOutcomes : OnSchedulerTimer(TRUE, ub) /\ TrackHandles(NullHandle)
SpecHandles == InitHandles /\ [][NextHandles]_vars

----------------------------------------------------------------------------
(* The running manager with a fair timer task: one alarm is followed, the
   callers add it and then work on the other alarms; the timer is created and
   armed without failure *)

Followed == 1
OtherIds == {2}

TimerTaskFires == TimerFire /\ UNCHANGED aside
TimerTaskRuns == \E ub \in UBOutcomes : OnSchedulerTimer(TRUE, ub) /\ UNCHANGED aside

NextLive ==
    \/ \E alarm \in AlarmInputs({Followed} \cup OtherIds), ub \in UBOutcomes :
          /\ alarm.id = Followed => Followed \notin DOMAIN alarms_
          /\ AddAlarm(alarm, TRUE, ub)
          /\ UNCHANGED aside
    \/ \E id \in OtherIds, ub \in UBOutcomes : RemoveAlarm(id, TRUE, ub) /\ UNCHANGED aside
    \/ \E alarm \in AlarmInputs(OtherIds), ub \in UBOutcomes :
          UpdateAlarm(alarm, TRUE, ub) /\ UNCHANGED aside
    \/ \E d \in TickSteps : Tick(d) /\ UNCHANGED aside
    \/ TimerTaskFires
    \/ TimerTaskRuns

\* a pass can run exactly when the callback is waiting: TimerTaskRuns is
\* enabled in these states, and every pass changes callback
CallbackWaiting == alive /\ callback.pending

\* weak fairness of the timer task for both of its steps; for TimerTaskRuns
\* it is written out, with CallbackWaiting for ENABLED <<TimerTaskRuns>>_vars
SpecLive ==
    /\ Init
    /\ [][NextLive]_vars
    /\ WF_vars(TimerTaskFires)
    /\ ([]<>~CallbackWaiting \/ []<><<TimerTaskRuns>>_vars)

----------------------------------------------------------------------------
(* Power loss during LoadAlarms: the device is off with some content; it is
   powered on and runs, or loses power again after some of the store calls of
   the load *)

RECURSIVE Survives(_, _, _)
\* the content that the next start finds when power is lost after the store
\* calls tr, made on pending content kv over committed content durable
Survives(kv, durable, tr) ==
    IF tr = <<>> THEN durable
    ELSE IF Head(tr).e = "set"
    THEN Survives(Put(kv, Head(tr).k, Head(tr).v), durable, Tail(tr))
    ELSE IF Head(tr).e = "erase" THEN Survives(Del(kv, Head(tr).k), durable, Tail(tr))
    ELSE IF Head(tr).e = "commit" THEN Survives(kv, kv, Tail(tr))
    ELSE Survives(kv, durable, Tail(tr))

\* the manager under construction, before LoadAlarms
Fresh(durable, created) ==
    [alarms |-> EmptyMap, next |-> 1, kv |-> durable, dur |-> durable,
     timer |-> IdleTimer(created), notifier |-> NoNotifier, tr |-> <<>>, trap |-> FALSE]

\* the device is off with content durable
PoweredOff(durable) ==
    /\ alarms_ = EmptyMap
    /\ next_alarm_id_ = 1
    /\ settings_ = durable
    /\ committed = durable
    /\ scheduler_timer_ = IdleTimer(FALSE)
    /\ callback = IdleCallback
    /\ alive = FALSE
    /\ last = Obs("off", 0, TRUE, <<>>)
    /\ ref = EmptyMap
    /\ refValid = FALSE

\* the device is powered on and loses power after k store calls of LoadAlarms
CrashInLoad(k, ub) ==
    /\ \E tr \in {LoadAlarms(Fresh(committed, TRUE), ub).tr} :
          /\ k <= Len(tr)
          /\ settings_' = Survives(committed, committed, SubSeq(tr, 1, k))
          /\ committed' = Survives(committed, committed, SubSeq(tr, 1, k))
    /\ alarms_' = EmptyMap
    /\ next_alarm_id_' = 1
    /\ scheduler_timer_' = IdleTimer(FALSE)
    /\ callback' = IdleCallback
    /\ alive' = FALSE
    /\ last' = Obs("crash", k, TRUE, <<>>)
    /\ ref' = EmptyMap
    /\ refValid' = FALSE
    /\ UNCHANGED now

CrashStores == <<LegacyStore, MixedStore, StaleStore, DamagedStore>>
\* more store calls than any load of the model makes
MaxLoadCalls == 30

InitCrash ==
    /\ \E i \in 1..Len(CrashStores) : PoweredOff(CrashStores[i])
    /\ now = 0
    /\ AsideIdle

NextCrash ==
    \/ \E k \in 0..MaxLoadCalls, ub \in UBOutcomes : CrashInLoad(k, ub) /\ UNCHANGED aside
    \/ \E ub \in UBOutcomes : Restart(TRUE, TRUE, ub) /\ UNCHANGED aside
    \/ \E alarm \in JobInputs, ub \in UBOutcomes : AddAlarm(alarm, TRUE, ub) /\ UNCHANGED aside
    \/ \E id \in NamedIds, ub \in UBOutcomes : RemoveAlarm(id, TRUE, ub) /\ UNCHANGED aside

SpecCrash == InitCrash /\ [][NextCrash]_vars

----------------------------------------------------------------------------
(* The parser as a state machine: the arguments are chosen at the start *)

IntItems(min_value, max_value) ==
    {Missing, Text, Number(min_value - 1), Number(min_value), Number(max_value),
     Number(max_value + 1)}
BoolItems == {Missing, Number(1), Bool(TRUE), Bool(FALSE)}
ParserInputs ==
    {NotObject} \cup
    {Object(delay, hour, minute, repeat, interval) :
        delay \in IntItems(kMinDelaySeconds, kMaxDelaySeconds),
        hour \in IntItems(kMinHour, kMaxHour),
        minute \in IntItems(kMinMinute, kMaxMinute),
        repeat \in BoolItems,
        interval \in IntItems(kMinIntervalMinutes, kMaxIntervalMinutes)}

\* one call of ParseAlarmRequest on the arguments; GenerateAlarmId runs inside
\* it when all checks pass
Parse ==
    /\ result.calls < MaxParses
    /\ stamped < MaxCallsPerMicro
    /\ \E r \in {ParseAlarmRequest(arguments, esp_time, g_alarm_counter)} :
          /\ result' = [calls |-> result.calls + 1, r |-> r]
          /\ g_alarm_counter' = IF r.success THEN FetchAdd(g_alarm_counter)
                                 ELSE g_alarm_counter
          /\ stamped' = IF r.success THEN stamped + 1 ELSE stamped
          /\ returned' = IF r.success THEN Append(returned, r.request.id) ELSE returned
    /\ UNCHANGED <<manager, jobvars, lockvars, allocated, handlevars, notifiervars, appvars, arguments, esp_time, generating>>

\* the microsecond clock advances
TickMicro ==
    /\ esp_time < MaxMicros
    /\ esp_time' = esp_time + 1
    /\ stamped' = 0
    /\ UNCHANGED <<manager, jobvars, lockvars, allocated, handlevars, notifiervars, appvars, arguments, result,
                   g_alarm_counter, generating, returned>>

InitParse ==
    /\ Boot(<<EmptyStore>>, {TRUE}, {TRUE}, FALSE)
    /\ alarms_mutex_ = NoOwner
    /\ threads = [t \in Threads |-> IdleThread]
    /\ relocked = FALSE
    /\ scheduled = <<>>
    /\ issued = EmptyMap
    /\ allocated = <<>>
    /\ HandlesIdle
    /\ NotifierIdle
    /\ arguments \in ParserInputs
    /\ result = [calls |-> 0, r |-> Failure("")]
    /\ g_alarm_counter = 0
    /\ esp_time = 0
    /\ stamped = 0
    /\ generating = [t \in GenTasks |-> NoCall]
    /\ returned = <<>>
    /\ AppIdle

NextParse == Parse \/ TickMicro
SpecParse == InitParse /\ [][NextParse]_vars

----------------------------------------------------------------------------
(* GenerateAlarmId called from several tasks: the clock is read first, the
   counter is taken afterwards *)

InGeneration == Cardinality({t \in GenTasks : generating[t].busy})

\* uint64_t timestamp_us = esp_timer_get_time()
GenBegin(t, trigger_type) ==
    /\ ~generating[t].busy
    /\ stamped < MaxCallsPerMicro
    /\ Len(returned) + InGeneration < MaxReturned
    /\ generating' = [generating EXCEPT ![t] =
            [busy |-> TRUE, trigger_type |-> trigger_type, timestamp_us |-> esp_time]]
    /\ stamped' = stamped + 1
    /\ UNCHANGED <<manager, jobvars, lockvars, allocated, handlevars, notifiervars, appvars, arguments, result,
                   g_alarm_counter, esp_time, returned>>

\* counter = g_alarm_counter.fetch_add(1); the string is formatted and returned
GenEnd(t) ==
    /\ generating[t].busy
    /\ returned' = Append(returned, FormatAlarmId(generating[t].trigger_type,
                                                  generating[t].timestamp_us,
                                                  g_alarm_counter))
    /\ g_alarm_counter' = FetchAdd(g_alarm_counter)
    /\ generating' = [generating EXCEPT ![t] = NoCall]
    /\ UNCHANGED <<manager, jobvars, lockvars, allocated, handlevars, notifiervars, appvars, arguments, result,
                   esp_time, stamped>>

InitGen == Boot(<<EmptyStore>>, {TRUE}, {TRUE}, FALSE) /\ AsideIdle
NextGen ==
    \/ \E t \in GenTasks, trigger_type \in {kDelay, kTimeOfDay} : GenBegin(t, trigger_type)
    \/ \E t \in GenTasks : GenEnd(t)
    \/ TickMicro
SpecGen == InitGen /\ [][NextGen]_vars

----------------------------------------------------------------------------
(* The application as a state machine: a test sets the fields, then calls *)

ActiveAlarmIds == {-1, 1, 42}
AppStates ==
    {[TestApplication EXCEPT !.protocol = protocol, !.device_state = device_state,
                             !.listening_mode = listening_mode,
                             !.alarm_playback_active = active, !.active_alarm_id = id] :
        protocol \in {NoProtocol} \cup {FakeProtocol(open, succeed) : open, succeed \in BOOLEAN},
        device_state \in DeviceStates, listening_mode \in ListeningModes,
        active \in BOOLEAN, id \in ActiveAlarmIds}

Called(op, after) ==
    /\ app_last.n < MaxAppCalls
    /\ app' = after
    /\ app_last' = [op |-> op, before |-> app, n |-> app_last.n + 1]
    /\ UNCHANGED <<manager, jobvars, lockvars, allocated, handlevars, notifiervars, parservars>>

CallStopAlarmPlayback == Called("StopAlarmPlayback", StopAlarmPlayback(app))
CallOnWakeWordDetected == Called("OnWakeWordDetected", OnWakeWordDetected(app))

InitApp ==
    /\ Boot(<<EmptyStore>>, {TRUE}, {TRUE}, FALSE)
    /\ alarms_mutex_ = NoOwner
    /\ threads = [t \in Threads |-> IdleThread]
    /\ relocked = FALSE
    /\ scheduled = <<>>
    /\ issued = EmptyMap
    /\ allocated = <<>>
    /\ HandlesIdle
    /\ NotifierIdle
    /\ ParserIdle
    /\ app \in AppStates
    /\ app_last = [op |-> "none", before |-> app, n |-> 0]

NextApp == CallStopAlarmPlayback \/ CallOnWakeWordDetected
SpecApp == InitApp /\ [][NextApp]_vars

----------------------------------------------------------------------------
(* Properties *)

Held == DOMAIN alarms_
IsAscending(list) == \A k \in 1..(Len(list) - 1) : list[k].id < list[k + 1].id
Records(list) == {list[k] : k \in 1..Len(list)}

\* C1: after any sequence of AddAlarm / UpdateAlarm / RemoveAlarm on an
\* initially empty Store, GetAlarms() lists exactly the records of the replayed
\* reference map, one entry per id, in ascending id order.
C1_GetAlarmsIsReplay ==
    refValid =>
        LET list == GetAlarms(alarms_)
        IN /\ Records(list) = {ref[i] : i \in DOMAIN ref}
           /\ Len(list) = Cardinality(DOMAIN ref)
           /\ IsAscending(list)
           /\ \A i \in DOMAIN ref : ref[i].id = i

C1_Witness ==
    /\ refValid
    /\ last.op = "UpdateAlarm"
    /\ last.ok
    /\ Cardinality(Held) = 2

\* C2: whenever no operation is in progress the id counter is at least 1 and
\* strictly greater than every id in the Store and than the id AddAlarm returned.
C2_CounterAboveIds ==
    alive =>
        /\ next_alarm_id_ >= 1
        /\ \A id \in Held : id < next_alarm_id_
        /\ last.op = "AddAlarm" => last.id < next_alarm_id_

\* C3: AddAlarm, when it returns, returns an id > 0; with input id <= 0 it returns the old counter
\* and increments the counter; with input id >= counter it returns the input id
\* and sets the counter to id + 1; otherwise it returns the input id and leaves
\* the counter unchanged.
C3_AddAlarmResult ==
    [][\A alarm \in StoreInputs, ub \in UBOutcomes :
          (AddAlarm(alarm, TRUE, ub) /\ alive') =>
              /\ last'.op = "AddAlarm"
              /\ last'.id > 0
              /\ alarm.id <= 0 =>
                    last'.id = next_alarm_id_ /\ next_alarm_id_' = next_alarm_id_ + 1
              /\ (alarm.id > 0 /\ alarm.id >= next_alarm_id_) =>
                    last'.id = alarm.id /\ next_alarm_id_' = alarm.id + 1
              /\ (alarm.id > 0 /\ alarm.id < next_alarm_id_) =>
                    last'.id = alarm.id /\ next_alarm_id_' = next_alarm_id_]_vars

\* C4: RemoveAlarm of an id that is not in the Store returns false and changes
\* nothing: Store, counter, every durable key, the timer; it makes no call on
\* the settings store (no commit) or on the timer.
C4_RemoveUnknownIsNoop ==
    [][\A id \in AllInts, ub \in UBOutcomes :
          (id \notin Held /\ RemoveAlarm(id, TRUE, ub)) =>
              /\ last'.op = "RemoveAlarm"
              /\ ~last'.ok
              /\ DoRemoveAlarm(Cur, id, now, TRUE, ub).M.tr = <<>>
              /\ GetAlarms(alarms_') = GetAlarms(alarms_)
              /\ UNCHANGED <<alarms_, next_alarm_id_, settings_, committed,
                             scheduler_timer_>>]_vars

C4_Witness ==
    /\ last.op = "RemoveAlarm"
    /\ ~last.ok
    /\ Held # {}
    /\ scheduler_timer_.active
    /\ now > 0

\* C5: UpdateAlarm of an alarm whose id is not in the Store returns false, does
\* not insert it, and leaves Store, counter, durable keys and timer unchanged.
C5_UpdateUnknownIsNoop ==
    [][\A alarm \in AlarmInputs(NamedIds), ub \in UBOutcomes :
          (alarm.id \notin Held /\ UpdateAlarm(alarm, TRUE, ub)) =>
              /\ last'.op = "UpdateAlarm"
              /\ ~last'.ok
              /\ alarm.id \notin DOMAIN alarms_'
              /\ UNCHANGED <<alarms_, next_alarm_id_, settings_, committed,
                             scheduler_timer_>>]_vars

C5_Witness ==
    /\ last.op = "UpdateAlarm"
    /\ ~last.ok
    /\ Held # {}
    /\ scheduler_timer_.active
    /\ now > 0

\* the ids of the committed alarm_ids list, and the ids with a full record
ListedIds(durable) ==
    IF kAlarmIdsKey \in DOMAIN durable
    THEN {ParseIdList(durable[kAlarmIdsKey])[k] :
             k \in 1..Len(ParseIdList(durable[kAlarmIdsKey]))}
    ELSE {}
FullRecordIds(durable) ==
    {id \in AllInts : \A p \in NewPrefixes : MakeKey(p, id) \in DOMAIN durable}

\* C6: after LoadAlarms and after every completed operation, the committed
\* content lists exactly the ids that have a full record (name, time, repeat,
\* interval and sound keys).
C6_DurableConsistent == alive => ListedIds(committed) = FullRecordIds(committed)

\* C7: every alarm in the Store and every sound value an operation writes to
\* the settings store is one of ALARM1, ALARM2, ALARM3; an alarm added or
\* updated with another sound is held with ALARM1.
C7_SoundsAllowed ==
    /\ [](alive => /\ \A id \in Held : alarms_[id].sound \in kAllowedSounds
                   /\ last.sounds \subseteq kAllowedSounds)
    /\ [][\A alarm \in AlarmInputs({1}), ub \in UBOutcomes :
             ((AddAlarm(alarm, TRUE, ub) \/ UpdateAlarm(alarm, TRUE, ub))
                  /\ alive' /\ last'.ok) =>
                 alarms_'[alarm.id].sound =
                     IF alarm.sound \in kAllowedSounds THEN alarm.sound ELSE "ALARM1"]_vars

\* C8: after a completed AddAlarm / UpdateAlarm / RemoveAlarm or dispatch pass
\* (timer created, arming succeeds) the timer is armed iff the Store is not
\* empty, and when armed it expires max(1 ms, min time - now) from now.
C8_TimerTracksMin ==
    (alive /\ last.ok
       /\ last.op \in {"AddAlarm", "UpdateAlarm", "RemoveAlarm", "OnSchedulerTimer"}) =>
        /\ scheduler_timer_.active <=> Held # {}
        /\ Held # {} =>
              \E id \in Held :
                  /\ \A other \in Held : alarms_[id].time <= alarms_[other].time
                  /\ scheduler_timer_.deadline_us =
                         now * kMicrosPerSecond
                         + Max(kMinDelayUs, (alarms_[id].time - now) * kMicrosPerSecond)

\* C9: a dispatch pass with captured time n keeps a due alarm with repeat and
\* interval I > 0 under its id and moves its time T to T + k*I*60 for the
\* smallest k >= 1 with T + k*I*60 > n; the new time is in the committed content.
C9_RepeatAdvance ==
    [][\A ub \in UBOutcomes :
          OnSchedulerTimer(TRUE, ub) =>
              \A id \in Held :
                  (alarms_[id].time <= callback.now /\ alarms_[id].repeat
                      /\ alarms_[id].interval > 0) =>
                      /\ id \in DOMAIN alarms_'
                      /\ alarms_'[id] = [alarms_[id] EXCEPT !.time = alarms_'[id].time]
                      /\ alarms_'[id].time > callback.now
                      /\ \E k \in 1..(MaxNow + 1) :
                            /\ alarms_'[id].time =
                                  alarms_[id].time + k * alarms_[id].interval * kSecondsPerMinute
                            /\ k > 1 =>
                                  alarms_[id].time
                                  + (k - 1) * alarms_[id].interval * kSecondsPerMinute
                                     <= callback.now
                      /\ MakeKey(kAlarmTimeKeyPrefix, id) \in DOMAIN committed'
                      /\ committed'[MakeKey(kAlarmTimeKeyPrefix, id)]
                             = IntToChars(alarms_'[id].time)]_vars

\* interval 10, due by 25 minutes: moved by three intervals
C9_Witness ==
    /\ last.op = "OnSchedulerTimer"
    /\ now = 1500
    /\ \E k \in 1..Len(last.jobs) :
          /\ last.jobs[k].alarm.time = 0
          /\ last.jobs[k].alarm.repeat
          /\ last.jobs[k].alarm.interval = 10
          /\ last.jobs[k].alarm.id \in Held
          /\ alarms_[last.jobs[k].alarm.id].time = 1800

\* C10: after a dispatch pass a due alarm that is not re-armable (repeat false,
\* or interval <= 0) is absent from GetAlarm and GetAlarms, none of its
\* per-alarm keys is in the committed content and its id is not in the
\* committed id list.
C10_DueOneShotRemoved ==
    [][\A ub \in UBOutcomes :
          OnSchedulerTimer(TRUE, ub) =>
              \A id \in Held :
                  (alarms_[id].time <= callback.now
                      /\ ~(alarms_[id].repeat /\ alarms_[id].interval > 0)) =>
                      /\ ~GetAlarm(alarms_', id).ok
                      /\ \A k \in 1..Len(GetAlarms(alarms_')) : GetAlarms(alarms_')[k].id # id
                      /\ \A p \in NewPrefixes \cup LegacyPrefixes :
                            MakeKey(p, id) \notin DOMAIN committed'
                      /\ id \notin ListedIds(committed')]_vars

\* a due alarm with repeat and interval 0 was handed off and removed while
\* another alarm stays
C10_Witness ==
    /\ last.op = "OnSchedulerTimer"
    /\ Held # {}
    /\ \E k \in 1..Len(last.jobs) :
          /\ last.jobs[k].alarm.repeat
          /\ last.jobs[k].alarm.interval = 0
          /\ last.jobs[k].alarm.id \notin Held
          /\ MakeKey(kAlarmSoundKeyPrefix, last.jobs[k].alarm.id) \notin DOMAIN committed

\* C11: in a dispatch pass every due alarm is handed off before the stored
\* record of any due alarm is changed and before anything is written to or
\* erased from the settings store.
C11_HandoffBeforeMutation ==
    [][\A ub \in UBOutcomes :
          OnSchedulerTimer(TRUE, ub) =>
              \A k \in 1..Len(DueIds(alarms_, callback.now)) :
                  /\ \A id \in Held :
                        alarms_[id].time <= callback.now =>
                            /\ id \in DOMAIN AtHandoff(Cur, callback.now, k).alarms
                            /\ AtHandoff(Cur, callback.now, k).alarms[id] = alarms_[id]
                  /\ AtHandoff(Cur, callback.now, k).kv = settings_]_vars

\* the label of a job: the name, "Alarm" for an empty name
Label(alarm) == IF alarm.name = "" THEN "Alarm" ELSE alarm.name

\* C12: whenever a job runs, it shows the label, plays the clip and passes to
\* the notifier the record that its alarm had when the dispatch pass began,
\* whatever the Store holds for that id by then.
C12_JobHoldsSnapshot ==
    [][RunJob =>
          last'.jobs = << [shown |-> Label(Head(scheduled).fired),
                           played |-> <<ResolveAlarmSoundClip(Head(scheduled).fired.sound),
                                        Head(scheduled).fired.id>>,
                           notified |-> Head(scheduled).fired] >>]_vars

\* a job has run after an UpdateAlarm renamed its alarm
C12_Witness ==
    /\ last.op = "RunJob"
    /\ last.id \in Held
    /\ alarms_[last.id].name # last.jobs[1].notified.name

\* C13: a dispatch pass hands off exactly one job for each due alarm, labelled
\* with the alarm's name, or "Alarm" for an empty name; an alarm that never was
\* repeating since its AddAlarm has at most one job handed off, and once it
\* has one, GetAlarm of its id is absent.
C13_OneJobPerDueAlarm ==
    /\ [][last'.op = "OnSchedulerTimer" =>
             /\ Len(last'.jobs) = Len(DueIds(alarms_, callback.now))
             /\ \A k \in 1..Len(last'.jobs) :
                   /\ last'.jobs[k].alarm.id = DueIds(alarms_, callback.now)[k]
                   /\ last'.jobs[k].notification =
                          Label(alarms_[DueIds(alarms_, callback.now)[k]])]_vars
    /\ [](\A id \in DOMAIN issued :
             issued[id].plain =>
                 /\ Len(issued[id].labels) <= 1
                 /\ Len(issued[id].labels) = 1 => ~GetAlarm(alarms_, id).ok)

\* the alarm "Tea" added under id 1 has fired: one job labelled "Tea", id 1 gone
C13_Witness ==
    /\ last.op = "OnSchedulerTimer"
    /\ 1 \in DOMAIN issued
    /\ issued[1] = [plain |-> TRUE, labels |-> <<"Tea">>]
    /\ ~GetAlarm(alarms_, 1).ok

\* the persisted time of id in kv, under the new or the legacy key
StoredTime(kv, id) ==
    IF MakeKey(kAlarmTimeKeyPrefix, id) \in DOMAIN kv
    THEN Some(kv[MakeKey(kAlarmTimeKeyPrefix, id)])
    ELSE IF MakeKey(kLegacyAlarmTimeKeyPrefix, id) \in DOMAIN kv
    THEN Some(kv[MakeKey(kLegacyAlarmTimeKeyPrefix, id)])
    ELSE NoValue

\* id has a persisted time that is present, numeric and within time_t
HasValidTime(kv, id) ==
    /\ StoredTime(kv, id).ok
    /\ ParseIntegral(TrimStringView(StoredTime(kv, id).v), LLONG_MIN, LLONG_MAX).ok
    /\ ParseIntegral(TrimStringView(StoredTime(kv, id).v), LLONG_MIN, LLONG_MAX).v
           \in TIME_T_MIN..TIME_T_MAX

\* C14: after a load, a listed id whose persisted time is absent, non-numeric
\* or outside time_t is not in the Store, and every other listed id is. (The
\* load moves a legacy time to the new key unchanged, so the settings after the
\* load tell which ids had a valid time before it.)
C14_InvalidTimeDropped ==
    (alive /\ last.op = "Construct") =>
        \A id \in ListedIds(settings_) : (id \in Held) = HasValidTime(settings_, id)

\* the legacy-scheme keys that durable content holds for the ids of its list
LegacyKeysLeft(durable) ==
    {MakeKey(p, id) : p \in LegacyPrefixes, id \in ListedIds(durable)} \cap DOMAIN durable

\* C15: after a load, writing the loaded alarms and the id list again
\* unchanged and loading again gives the same alarms; the content that the
\* load committed holds no legacy key for a listed id, and loading it again
\* gives the same alarms.
C15_LoadRoundTrip ==
    (alive /\ last.op = "Construct") =>
        /\ Loaded(Repersist(Cur).dur) = alarms_
        /\ Loaded(committed) = alarms_
        /\ LegacyKeysLeft(committed) = {}

\* the thread is between its lock_guard and the return of its method
InCritical(t) == Running(t) /\ (Len(threads[t].stack) > 1 \/ threads[t].stack[1].i > 1)

\* C16: AddAlarm, RemoveAlarm, UpdateAlarm, GetAlarm, GetAlarms and the
\* dispatch pass exclude one another: at most one thread is past its lock, a
\* statement on alarms_ is only executed by the thread that holds
\* alarms_mutex_ (ScheduleNextLocked included), and no thread locks the mutex
\* while it holds it.
C16_MutualExclusion ==
    /\ [](Cardinality({t \in Threads : InCritical(t)}) <= 1)
    /\ [](~relocked)
    /\ [][\A t \in Threads :
             (Running(t) /\ Instr(t) \in {"table", "find"}
                  /\ threads'[t].stack # threads[t].stack) => alarms_mutex_ = t]_vars

\* app1 is in ScheduleNextLocked, called from AddAlarm, while app2 and the
\* timer task wait for the mutex
C16_Witness ==
    /\ threads["app1"].op = "AddAlarm"
    /\ Len(threads["app1"].stack) = 2
    /\ Running("app2") /\ Instr("app2") = "lock"
    /\ Running("timer") /\ Instr("timer") = "lock"

\* C17: from an empty durable store, over AddAlarm / UpdateAlarm / RemoveAlarm,
\* dispatch passes and restarts, no id is returned twice by AddAlarm calls with
\* input id <= 0, and whenever no operation is in progress the committed
\* next_alarm_id (1 when never written) equals the counter in memory.
C17_AllocatedIdsNeverReused ==
    /\ \A i, j \in 1..Len(allocated) : i < j => allocated[i] # allocated[j]
    /\ alive => next_alarm_id_ =
                    (IF kNextIdKey \in DOMAIN committed THEN committed[kNextIdKey] ELSE 1)

\* the arguments have the JSON types that the parser expects
RightTyped(args) ==
    /\ args.kind = "object"
    /\ \A item \in {args.delay, args.hour, args.minute, args.interval} :
          item.kind \in {"none", "number"}
    /\ args.repeat.kind \in {"none", "bool"}

Supplied(item) == item.kind # "none"
InRange(item, lo, hi) == Supplied(item) => item.valueint \in lo..hi

\* what the request format asks of the arguments
ValidRequest(args) ==
    /\ \/ Supplied(args.delay) /\ ~Supplied(args.hour) /\ ~Supplied(args.minute)
       \/ ~Supplied(args.delay) /\ Supplied(args.hour) /\ Supplied(args.minute)
    /\ InRange(args.delay, 1, 86400)
    /\ InRange(args.hour, 0, 23)
    /\ InRange(args.minute, 0, 59)
    /\ InRange(args.interval, 1, 10080)
    /\ Supplied(args.interval) <=> (args.repeat = Bool(TRUE))

\* C18: for arguments whose present members have the right JSON type,
\* ParseAlarmRequest succeeds exactly when one of {delay} and {hour, minute} is
\* supplied, every supplied value is in range and interval is supplied exactly
\* when repeat is true; otherwise it fails with a non-empty error message, an
\* empty request id, and without taking a value of the id counter.
C18_ParseAcceptsExactlyValid ==
    /\ [](result.calls > 0 /\ RightTyped(arguments) =>
            /\ result.r.success <=> ValidRequest(arguments)
            /\ ~result.r.success =>
                  /\ result.r.error_message # ""
                  /\ result.r.request.id = <<>>)
    /\ [][result'.calls > result.calls /\ RightTyped(arguments) /\ ~result'.r.success =>
            /\ g_alarm_counter' = g_alarm_counter
            /\ returned' = returned]_vars

C18_Witness ==
    /\ result.calls > 0
    /\ RightTyped(arguments)
    /\ result.r.success
    /\ result.r.request.trigger_type = kTimeOfDay
    /\ result.r.request.repeat
    /\ result.r.request.interval_minutes = Some(kMaxIntervalMinutes)
    /\ result.r.request.id # <<>>

\* C19: any two calls of GenerateAlarmId in one process lifetime return
\* different strings, whichever tasks make them and whatever the clock reads.
C19_GeneratedIdsDistinct ==
    \A i, j \in 1..Len(returned) : i # j => returned[i] # returned[j]

\* C20: StopAlarmPlayback called while playback is active clears
\* alarm_playback_active, sets active_alarm_id to -1 and resets the decoder
\* exactly once, changing nothing else; called while playback is not active
\* it changes nothing and causes no audio event; a second call right after
\* it changes nothing.
C20_StopAlarmPlayback ==
    app_last.op = "StopAlarmPlayback" =>
        /\ app_last.before.alarm_playback_active =>
              app = [app_last.before EXCEPT
                        !.alarm_playback_active = FALSE,
                        !.active_alarm_id = -1,
                        !.audio_service.events = Append(@, "reset_decoder")]
        /\ ~app_last.before.alarm_playback_active => app = app_last.before
        /\ StopAlarmPlayback(app) = app

C20_Witness ==
    /\ app_last.op = "StopAlarmPlayback"
    /\ app_last.n = 2
    /\ app_last.before.alarm_playback_active
    /\ app_last.before.active_alarm_id = 42
    /\ app_last.before.audio_service.events # <<>>
    /\ app.audio_service.events[Len(app.audio_service.events)] = "reset_decoder"

\* the wake word was detected with the device idle and the audio channel closed
WokenClosed(open_should_succeed) ==
    /\ app_last.op = "OnWakeWordDetected"
    /\ ~app_last.before.protocol.null
    /\ app_last.before.device_state = "kDeviceStateIdle"
    /\ ~app_last.before.protocol.audio_channel_open
    /\ app_last.before.protocol.open_should_succeed = open_should_succeed

C22_OnlineKeepsAlarm ==
    WokenClosed(TRUE) =>
        /\ app.alarm_playback_active = app_last.before.alarm_playback_active
        /\ app.active_alarm_id = app_last.before.active_alarm_id
        /\ app.protocol.events = app_last.before.protocol.events
                \o <<"open_success", <<"wake_word:", "xiaozhi">> >>
        /\ app.protocol.audio_channel_open
        /\ app.audio_service.events = app_last.before.audio_service.events \o <<"play_sound">>
        /\ app.audio_service.wake_word_enabled = app_last.before.audio_service.wake_word_enabled

C22_Witness ==
    /\ WokenClosed(TRUE)
    /\ app_last.before.alarm_playback_active
    /\ app.alarm_playback_active
    /\ app.active_alarm_id = 42
    /\ app.audio_service.events = <<"play_sound">>

\* the followed alarm is in the Store and the clock has reached its time
FollowedDue == Followed \in DOMAIN alarms_ /\ alarms_[Followed].time <= now
\* a dispatch pass has just handed off a job for the followed alarm
FollowedHandedOff ==
    /\ last.op = "OnSchedulerTimer"
    /\ \E k \in 1..Len(last.jobs) : last.jobs[k].alarm.id = Followed

\* C23: with the timer created and armed without failure and the timer task
\* scheduled fairly, an alarm that is in the Store when the clock has reached
\* its time is eventually handed off by a dispatch pass, whatever AddAlarm /
\* UpdateAlarm / RemoveAlarm calls on other alarms run in between.
C23_DueAlarmDispatched == FollowedDue ~> FollowedHandedOff

\* the followed alarm was handed off by a pass that ran after a caller had
\* changed another alarm while the callback was waiting
C23_Witness ==
    /\ FollowedHandedOff
    /\ OtherIds \cap DOMAIN alarms_ # {}
    /\ alarms_[2].time > now
    /\ now = 600

\* the same ids, and for each id the same name, time, repeat, interval and sound
SameAlarms(a, b) ==
    /\ DOMAIN a = DOMAIN b
    /\ \A id \in DOMAIN a :
          /\ a[id].name = b[id].name
          /\ a[id].time = b[id].time
          /\ a[id].repeat = b[id].repeat
          /\ a[id].interval = b[id].interval
          /\ a[id].sound = b[id].sound

\* C24: a manager constructed from the committed content, at any point between
\* the calls and dispatch passes of a running manager, holds the same ids with
\* the same name, time, repeat, interval and sound as that manager held.
C24_RestartRestores ==
    [][(alive /\ last'.op = "Construct") => SameAlarms(alarms_, alarms_')]_vars

\* a restart after a pass has advanced a repeating alarm and a caller has added
\* another one
C24_Witness ==
    /\ last.op = "Construct"
    /\ now >= 600
    /\ Cardinality(DOMAIN alarms_) = 2
    /\ \E id \in DOMAIN alarms_ :
          alarms_[id].repeat /\ alarms_[id].interval = 10 /\ alarms_[id].time > now
    /\ \E id \in DOMAIN alarms_ : alarms_[id].name = "Far"

\* the five fields in the order name, time, repeat, interval, sound: the
\* new-scheme key, the legacy key and the default of field f of an id
NewKey(f, id) == MakeKey(RemovalOrder[f], id)
LegacyKey(f, id) == MakeKey(RemovalOrder[f + 5], id)
FieldDefault(f) == <<"", <<"0">>, FALSE, 0, "ALARM1">>[f]

\* the value that the migration rule selects for field f of an id in content kv
Selected(kv, f, id) ==
    IF NewKey(f, id) \in DOMAIN kv THEN kv[NewKey(f, id)]
    ELSE IF LegacyKey(f, id) \in DOMAIN kv THEN kv[LegacyKey(f, id)]
    ELSE FieldDefault(f)

\* the migration rule applied to field f of a listed id by a load that found
\* content before, left content after and holds the alarms loaded
Migrated(before, after, loaded, f, id) ==
    /\ LegacyKey(f, id) \notin DOMAIN after
    /\ IF NewKey(f, id) \in DOMAIN before \/ LegacyKey(f, id) \in DOMAIN before
       THEN NewKey(f, id) \in DOMAIN after /\ after[NewKey(f, id)] = Selected(before, f, id)
       ELSE NewKey(f, id) \notin DOMAIN after
    /\ id \in DOMAIN loaded =>
          /\ f = 1 => loaded[id].name = Selected(before, f, id)
          /\ f = 2 => IntToChars(loaded[id].time) = TrimStringView(Selected(before, f, id))
          /\ f = 3 => loaded[id].repeat = Selected(before, f, id)
          /\ f = 4 => loaded[id].interval = Selected(before, f, id)
          /\ f = 5 => loaded[id].sound = NormalizeSound(Selected(before, f, id))

\* C25: a load applies the migration rule to each of the five fields of each
\* id of the id list: the new-scheme value is used if present, otherwise the
\* legacy value is adopted and written under the new-scheme key, otherwise the
\* default is used; the committed content after the load has no legacy key of
\* a listed id.
C25_PerFieldMigration ==
    [][last'.op = "Construct" =>
          \A id \in ListedIds(committed), f \in 1..5 :
              Migrated(committed, committed', alarms_', f, id)]_vars

\* the legacy-scheme keys of any id that content holds
LegacyKeysOf(durable) ==
    {MakeKey(p, id) : p \in LegacyPrefixes, id \in AllInts} \cap DOMAIN durable

\* C26: when power is lost at any point of LoadAlarms, the next load takes
\* from what is left the alarms, field by field, that the interrupted load
\* would have taken; and no step, a loss of power included, brings back a
\* legacy key that is gone from the committed content.
C26_CrashInLoadRecovers ==
    /\ [][last'.op = "crash" => SameAlarms(Loaded(committed'), Loaded(committed))]_vars
    /\ [][LegacyKeysOf(committed') \subseteq LegacyKeysOf(committed)]_vars

\* power was lost in the middle of a migration: legacy values had been
\* adopted and erased in the pending content, and are still committed
C26_Witness ==
    /\ last.op = "crash"
    /\ last.id >= 4
    /\ "alarm_1" \in DOMAIN committed
    /\ "a_n_1" \notin DOMAIN committed
    /\ Loaded(committed)[1].name = "Tea"

\* the Store records that hold this per-alarm timer handle
Holders(h) == {id \in DOMAIN alarms_ : alarms_[id].timer_handle = h}
\* how often this handle was stopped and deleted
TimesReleased(h) == Cardinality({i \in DOMAIN released : released[i] = h})

\* C27: a per-alarm timer handle is held by at most one Store record, is
\* never released twice, is not released while a record holds it, and is
\* released once no record holds it any more
C27_HandleReleasedOnce ==
    alive =>
        \A h \in 1..handles_created :
            /\ Cardinality(Holders(h)) <= 1
            /\ TimesReleased(h) <= 1
            /\ (Holders(h) = {}) <=> (TimesReleased(h) = 1)

\* the calls on the Settings object among the collaborator calls
StoreCalls(tr) == SelectSeq(tr, LAMBDA c : c.e \in {"set", "erase", "commit"})
\* the calls of the pass that runs when the waiting callback gets the lock
PassCalls(ub) == StoreCalls(DoOnSchedulerTimer(Cur, callback.now, now, TRUE, ub).tr)
Commits(calls) == SelectSeq(calls, LAMBDA c : c.e = "commit")
IdListWrites(calls) == SelectSeq(calls, LAMBDA c : c.e = "set" /\ c.k = kAlarmIdsKey)

\* C28: a dispatch pass that updates or removes an alarm commits exactly
\* once, as the last call on the store after its writes, erases and the
\* rewrite of the id list; the id list is rewritten only when an alarm was
\* removed
C28_OneCommitPerPass ==
    [][(callback.pending /\ last'.op = "OnSchedulerTimer") =>
          \A ub \in UBOutcomes :
              /\ alarms_' # alarms_ =>
                    /\ Len(Commits(PassCalls(ub))) = 1
                    /\ PassCalls(ub)[Len(PassCalls(ub))].e = "commit"
              /\ IdListWrites(PassCalls(ub)) # <<>> => DOMAIN alarms_' # DOMAIN alarms_]_vars

\* a pass has advanced one due alarm and removed another
C28_Witness ==
    /\ last.op = "OnSchedulerTimer"
    /\ \E j, k \in 1..Len(last.jobs) :
          /\ last.jobs[j].alarm.id \in Held
          /\ last.jobs[k].alarm.id \notin Held

\* the keys of one alarm, in both key schemes
KeysOf(id) == {MakeKey(p, id) : p \in NewPrefixes \cup LegacyPrefixes}
\* the two contents agree on the keys of this alarm
SameKeys(before, after, id) ==
    \A key \in KeysOf(id) :
        /\ key \in DOMAIN before <=> key \in DOMAIN after
        /\ key \in DOMAIN before => after[key] = before[key]

\* C29: a dispatch pass leaves every alarm whose time is after the captured
\* now as it is, in the Store and in the store's pending and committed
\* content, and hands off nothing for it; a pass without a due alarm changes
\* no record, calls neither a write, an erase nor commit, hands off nothing
\* and only re-arms the timer
C29_NotDueUntouched ==
    [][(callback.pending /\ last'.op = "OnSchedulerTimer") =>
          /\ \A id \in Held :
                alarms_[id].time > callback.now =>
                    /\ id \in DOMAIN alarms_'
                    /\ alarms_'[id] = alarms_[id]
                    /\ SameKeys(settings_, settings_', id)
                    /\ SameKeys(committed, committed', id)
                    /\ \A k \in 1..Len(last'.jobs) : last'.jobs[k].alarm.id # id
          /\ (\A id \in Held : alarms_[id].time > callback.now) =>
                /\ alarms_' = alarms_
                /\ next_alarm_id_' = next_alarm_id_
                /\ settings_' = settings_
                /\ committed' = committed
                /\ last'.jobs = <<>>
                /\ \A ub \in UBOutcomes : PassCalls(ub) = <<>>]_vars

\* the timer fired, the callback waited, and its pass found no due alarm
\* among the alarms of the Store
C29_Witness ==
    /\ last.op = "OnSchedulerTimer"
    /\ last.jobs = <<>>
    /\ Held # {}
    /\ scheduler_timer_.active

\* C30: every alarm that is in the Store when the pass gets the lock, with
\* its time at or before the clock of that moment, is in the due set of the
\* pass and so is handed off by it
C30_DueAtLockDispatched ==
    [][(callback.pending /\ last'.op = "OnSchedulerTimer") =>
          \A id \in Held :
              alarms_[id].time <= now =>
                  \E k \in 1..Len(last'.jobs) : last'.jobs[k].alarm.id = id]_vars

\* C31: a notification job calls the notifier that was installed when the
\* job was handed off, whatever SetCloudNotifier installed or cleared since,
\* and calls none when none was installed at the handoff
C31_JobCallsNotifierOfHandoff ==
    [][(scheduled # <<>> /\ last'.op = "RunJob") =>
          last'.notifier = Head(scheduled).installed]_vars

\* a job has called a notifier that was replaced or cleared before it ran
C31_Witness ==
    /\ last.op = "RunJob"
    /\ last.notifier \in Notifiers
    /\ cloud_notifier_ # last.notifier

\* esp_timer_start_once was called and failed / was called
ArmFailed(M) == \E i \in DOMAIN M.tr : M.tr[i].e = "timer_start_failed"
ArmAttempted(M) ==
    \E i \in DOMAIN M.tr : M.tr[i].e \in {"timer_start", "timer_start_failed"}

\* F is the manager after an operation whose arming failed, T the manager
\* after the same operation with the timer armed: F has finished, everything
\* it wrote is committed, and only the timer differs
ArmFailureHarmless(F, T) ==
    ArmFailed(F) =>
        /\ ~F.trap
        /\ F.alarms = T.alarms
        /\ F.next = T.next
        /\ F.kv = T.kv
        /\ F.dur = T.dur
        /\ F.dur = F.kv
        /\ ~F.timer.active

\* a mutation that succeeded, or a dispatch pass, on a created timer with
\* alarms left in the Store has called esp_timer_start_once
Recomputed(M, success) ==
    (success /\ ~M.trap /\ M.timer.created /\ DOMAIN M.alarms # {}) => ArmAttempted(M)

\* the success value is returned although arming failed
ReturnsSuccess(F, T, ok) == ArmFailed(F.M) => (F.ret = T.ret /\ ok)

MutationsSurviveArmFailure(ub) ==
    /\ \A alarm \in ArmInputs :
          /\ ArmFailureHarmless(DoAddAlarm(Cur, alarm, now, FALSE, ub).M,
                                DoAddAlarm(Cur, alarm, now, TRUE, ub).M)
          /\ ReturnsSuccess(DoAddAlarm(Cur, alarm, now, FALSE, ub),
                            DoAddAlarm(Cur, alarm, now, TRUE, ub),
                            DoAddAlarm(Cur, alarm, now, FALSE, ub).ret
                                \in DOMAIN DoAddAlarm(Cur, alarm, now, FALSE, ub).M.alarms)
          /\ ArmFailureHarmless(DoUpdateAlarm(Cur, alarm, now, FALSE, ub).M,
                                DoUpdateAlarm(Cur, alarm, now, TRUE, ub).M)
          /\ ReturnsSuccess(DoUpdateAlarm(Cur, alarm, now, FALSE, ub),
                            DoUpdateAlarm(Cur, alarm, now, TRUE, ub),
                            DoUpdateAlarm(Cur, alarm, now, FALSE, ub).ret = TRUE)
    /\ \A id \in NamedIds :
          /\ ArmFailureHarmless(DoRemoveAlarm(Cur, id, now, FALSE, ub).M,
                                DoRemoveAlarm(Cur, id, now, TRUE, ub).M)
          /\ ReturnsSuccess(DoRemoveAlarm(Cur, id, now, FALSE, ub),
                            DoRemoveAlarm(Cur, id, now, TRUE, ub),
                            DoRemoveAlarm(Cur, id, now, FALSE, ub).ret = TRUE)
    /\ callback.pending =>
          ArmFailureHarmless(DoOnSchedulerTimer(Cur, callback.now, now, FALSE, ub),
                             DoOnSchedulerTimer(Cur, callback.now, now, TRUE, ub))

NextRecomputeArmsAgain(armOk, ub) ==
    /\ \A alarm \in ArmInputs :
          /\ Recomputed(DoAddAlarm(Cur, alarm, now, armOk, ub).M, TRUE)
          /\ Recomputed(DoUpdateAlarm(Cur, alarm, now, armOk, ub).M,
                        DoUpdateAlarm(Cur, alarm, now, armOk, ub).ret)
    /\ \A id \in NamedIds :
          Recomputed(DoRemoveAlarm(Cur, id, now, armOk, ub).M,
                     DoRemoveAlarm(Cur, id, now, armOk, ub).ret)
    /\ callback.pending =>
          Recomputed(DoOnSchedulerTimer(Cur, callback.now, now, armOk, ub), TRUE)

\* C32: an operation whose esp_timer_start_once fails finishes as it does
\* with the timer armed, the timer apart: same Store, same committed content,
\* same return value, which is the success value; the timer then stays
\* unarmed until AddAlarm, UpdateAlarm, RemoveAlarm, a dispatch pass or a new
\* manager recomputes it, and each of these calls esp_timer_start_once again
C32_ArmFailureNotFatal ==
    /\ [](alive => \A ub \in UBOutcomes :
                      /\ MutationsSurviveArmFailure(ub)
                      /\ \A armOk \in BOOLEAN : NextRecomputeArmsAgain(armOk, ub))
    /\ [][(~scheduler_timer_.active /\ scheduler_timer_'.active) =>
              last'.op \in {"AddAlarm", "UpdateAlarm", "RemoveAlarm",
                            "OnSchedulerTimer", "Construct"}]_vars

\* AddAlarm has stored and committed its alarm, and the timer is not armed
C32_Witness ==
    /\ alive
    /\ last.op = "AddAlarm"
    /\ last.id \in Held
    /\ MakeKey(kAlarmTimeKeyPrefix, last.id) \in DOMAIN committed
    /\ scheduler_timer_.created
    /\ ~scheduler_timer_.active
    /\ ~callback.pending
====
